---- MODULE Spec2Model ----
(***************************************************************************)
(* Bet ledger and result resolver of the sports-betting bot (src/arb.py).  *)
(*                                                                         *)
(* Representation.  Money is counted in thousandths of a dollar and odds   *)
(* in hundredths, so that stake * (odds - 1) is an exact integer for the   *)
(* stakes (one decimal) and odds (two decimals) the bot produces.  Time is *)
(* in seconds since an arbitrary epoch that falls on a UTC midnight.  A    *)
(* text is the sequence of its lower-cased words: every comparison of the  *)
(* resolver is made on lower-cased text, and the vocabulary below has no   *)
(* word that is a substring of another, so that Python's substring test    *)
(* `word in text` is membership of the word in the text's words.           *)
(***************************************************************************)
EXTENDS Integers, Sequences, FiniteSets, TLC

VARIABLES
    guild_bankrolls,   \* guild id -> bankroll record (only the guilds referenced so far)
    active_bets,       \* message id -> bet_info
    now,               \* the wall clock, datetime.now(timezone.utc)
    ticks,             \* how often the clock was advanced (bounds the run)
    commands,          \* how many operator commands and summaries ran (bounds the run)
    pc,                \* check_bet_results: "idle" or "checking"
    current_time,      \* check_bet_results: the clock read at the start of the pass
    sorted_bets,       \* check_bet_results: message ids still to visit, oldest first
    completed_bets,    \* check_bet_results: message ids to drop at the end of the pass
    results_summary,   \* check_bet_results: the pass's counters
    bet_log,           \* message id -> what the log says was done with the bet, in order
    ev_sent_ids,       \* guild id -> the id keys in server_settings[guild_id]["ev_sent_ids"]
    sent_alerts,       \* the list sent_alerts
    scans,             \* each scan job's position and local variables
    scans_started,     \* how many scan jobs were started
    file_bankrolls,    \* what bankroll_data.json holds (<<>>: there is no file)
    file_active_bets,  \* what active_bets.json holds
    calc,              \* a call of one of the detection and sizing functions
    odds_cache,        \* (sport_key, market) -> the entry of odds_cache
    sports_cache,      \* the dict sports_cache
    requests,          \* what the upstream saw: requests per URL, and its last answer
    fetch,             \* the get_odds or get_sports call in progress
    last_op            \* the operation of the last step and its arguments

vars == <<guild_bankrolls, active_bets, now, ticks, commands, pc, current_time, sorted_bets,
          completed_bets, results_summary, bet_log, ev_sent_ids, sent_alerts,
          scans, scans_started, file_bankrolls, file_active_bets, calc,
          odds_cache, sports_cache, requests, fetch, last_op>>

scan_vars == <<scans, scans_started>>
cache_vars == <<odds_cache, sports_cache, requests, fetch>>
ev_vars == <<ev_sent_ids, sent_alerts, scan_vars, calc, cache_vars>>
file_vars == <<file_bankrolls, file_active_bets>>

----------------------------------------------------------------------------
(* Bounds *)

MaxGuilds == 2
MaxBets == 2
MaxTicks == 2
MaxCommands == 1
MaxScans == 2
MaxQuotes == 21
MaxCalls == 2

(* Program constants *)

TooNewSeconds == 7200
TooOldSeconds == 1209600
DefaultBankrollDollars == 1000
ResetBankrollDollars == 100
\* A price is valid when it is above 1.01 and at most 50 (hundredths)
MinValidPrice == 101
MaxValidPrice == 5000
\* An event is looked at when it starts in one hour to seven days (seconds)
WindowMinSeconds == 3600
WindowMaxSeconds == 604800
\* The age in seconds from which a cache entry is no longer used
CACHE_SECONDS == 15

\* The scan jobs: the hourly task, a guild's Force EV Scan button, the owner's
\* Global Scan button
Jobs == {"hourly", "force", "global"}
\* A job that is not running
IdleScan == [pc |-> "idle", guild_id |-> 0, last_guild |-> 0, evs |-> <<>>, todo |-> <<>>]

Guilds == 1..MaxGuilds
MessageIds == 1..MaxBets

Dollars(d) == d * 1000
SecondsPerDay == 24 * 60 * 60
DateOf(t) == t \div SecondsPerDay

Max(a, b) == IF a >= b THEN a ELSE b
Range(s) == {s[i] : i \in DOMAIN s}

\* dict.get(key, default)
Get(d, key, default) == IF key \in DOMAIN d THEN d[key] ELSE default
\* d[key] = value
Put(d, key, value) == [k \in DOMAIN d \cup {key} |-> IF k = key THEN value ELSE d[k]]

----------------------------------------------------------------------------
(* Bankroll ledger *)

\* The record initialize_bankroll stores for a guild it has not seen.
FreshBankroll(bankroll_amount, t) ==
    [current |-> bankroll_amount,
     initial |-> bankroll_amount,
     daily_profit |-> 0,
     total_profit |-> 0,
     bets_today |-> <<>>,
     won_bets |-> 0,
     lost_bets |-> 0,
     pending_bets |-> 0,
     void_bets |-> 0,
     last_reset |-> DateOf(t),
     total_staked |-> 0,
     total_winnings |-> 0]

\* initialize_bankroll(guild_id): every caller leaves bankroll_amount at its default.
initialize_bankroll(gb, guild_id, t) ==
    IF guild_id \in DOMAIN gb
    THEN gb
    ELSE Put(gb, guild_id, FreshBankroll(Dollars(DefaultBankrollDollars), t))

\* set_bankroll_amount(guild_id, new_amount)
set_bankroll_amount(gb, guild_id, new_amount, t) ==
    LET gb1 == initialize_bankroll(gb, guild_id, t)
    IN  [gb1 EXCEPT ![guild_id] = [@ EXCEPT !.current = new_amount, !.initial = new_amount]]

\* SetBankrollModal.on_submit, after the amount was parsed and found positive
SetBankrollModal_on_submit(gb, guild_id, amount, t) ==
    LET gb1 == initialize_bankroll(gb, guild_id, t)
    IN  [gb1 EXCEPT ![guild_id] = [@ EXCEPT !.current = amount,
                                            !.initial = amount,
                                            !.total_profit = 0,
                                            !.daily_profit = 0]]

\* ResetBankrollButton.callback: the stored record has no pending_bets and no void_bets key
ResetBankrollButton_callback(gb, guild_id, t) ==
    Put(gb, guild_id,
        [current |-> Dollars(ResetBankrollDollars),
         initial |-> Dollars(ResetBankrollDollars),
         daily_profit |-> 0,
         total_profit |-> 0,
         bets_today |-> <<>>,
         won_bets |-> 0,
         lost_bets |-> 0,
         last_reset |-> DateOf(t),
         total_staked |-> 0,
         total_winnings |-> 0])

\* Variant: the new day zeroes daily_profit but keeps yesterday's records
DailyRollover_KeepsBets(bankroll, t) ==
    IF bankroll.last_reset # DateOf(t)
    THEN [bankroll EXCEPT !.daily_profit = 0, !.last_reset = DateOf(t)]
    ELSE bankroll

\* The new-day check at the head of update_bankroll_result_enhanced
DailyRollover(bankroll, t) ==
    IF bankroll.last_reset # DateOf(t)
    THEN [bankroll EXCEPT !.daily_profit = 0, !.bets_today = <<>>, !.last_reset = DateOf(t)]
    ELSE bankroll

\* Variant: the payout, stake included, is credited instead of the profit
WinProfit_Payout(stake_dollars, odds) == (stake_dollars * odds) \div 100

\* stake_dollars * (odds - 1), odds in hundredths
WinProfit(stake_dollars, odds) == (stake_dollars * (odds - 100)) \div 100

\* Variant: a loss is taken from current and daily_profit but not from total_profit
ApplyResult_LossKeepsTotal(bankroll, stake_dollars, odds, won) ==
    IF won
    THEN [bankroll EXCEPT !.current = @ + (stake_dollars * (odds - 100)) \div 100,
                          !.daily_profit = @ + (stake_dollars * (odds - 100)) \div 100,
                          !.total_profit = @ + (stake_dollars * (odds - 100)) \div 100,
                          !.won_bets = @ + 1,
                          !.total_winnings = @ + (stake_dollars * (odds - 100)) \div 100]
    ELSE [bankroll EXCEPT !.current = @ - stake_dollars,
                          !.daily_profit = @ - stake_dollars,
                          !.lost_bets = @ + 1]

\* The won / lost branch of update_bankroll_result_enhanced
ApplyResult(bankroll, stake_dollars, odds, won) ==
    IF won
    THEN [bankroll EXCEPT !.current = @ + WinProfit(stake_dollars, odds),
                          !.daily_profit = @ + WinProfit(stake_dollars, odds),
                          !.total_profit = @ + WinProfit(stake_dollars, odds),
                          !.won_bets = @ + 1,
                          !.total_winnings = @ + WinProfit(stake_dollars, odds)]
    ELSE [bankroll EXCEPT !.current = @ - stake_dollars,
                          !.daily_profit = @ - stake_dollars,
                          !.total_profit = @ - stake_dollars,
                          !.lost_bets = @ + 1]

\* The record update_bankroll_result_enhanced appends to bets_today
BetRecord(stake_dollars, odds, won, bet_info, t) ==
    [stake |-> stake_dollars,
     odds |-> odds,
     won |-> won,
     profit |-> IF won THEN WinProfit(stake_dollars, odds) ELSE 0 - stake_dollars,
     time |-> t,
     market_key |-> Get(bet_info, "market_key", "unknown"),
     event_id |-> Get(bet_info, "event_id", "unknown"),
     outcome |-> Get(bet_info, "outcome", <<"unknown">>)]

\* update_bankroll_result_enhanced(guild_id, stake_dollars, odds, won, bet_info).
\* The per-market win/loss tallies and the win_rate / avg_stake / avg_odds figures it
\* also stores are derived statistics no other code of the ledger reads back; they are
\* left out of the record.
update_bankroll_result_enhanced(gb, guild_id, stake_dollars, odds, won, bet_info, t) ==
    LET gb1 == initialize_bankroll(gb, guild_id, t)
        b1 == DailyRollover(gb1[guild_id], t)
        b2 == ApplyResult(b1, stake_dollars, odds, won)
        b3 == Put(b2, "pending_bets", Max(0, Get(b2, "pending_bets", 0) - 1))
        b4 == [b3 EXCEPT !.total_staked = @ + stake_dollars,
                         !.bets_today = Append(@, BetRecord(stake_dollars, odds, won, bet_info, t))]
    IN  [gb1 EXCEPT ![guild_id] = b4]

\* Variant: voiding a bet also hands its stake back to the bankroll
handle_expired_bet_refund(gb, bet_info, t) ==
    LET guild_id == bet_info.guild_id
        gb1 == initialize_bankroll(gb, guild_id, t)
        b1 == Put(gb1[guild_id], "void_bets", Get(gb1[guild_id], "void_bets", 0) + 1)
        b2 == Put(b1, "pending_bets", Max(0, Get(b1, "pending_bets", 0) - 1))
    IN  [gb1 EXCEPT ![guild_id] = [b2 EXCEPT !.current = @ + bet_info.stake]]

\* handle_expired_bet(message_id, bet_info): the bankroll part
handle_expired_bet(gb, bet_info, t) ==
    LET guild_id == bet_info.guild_id
        gb1 == initialize_bankroll(gb, guild_id, t)
        b1 == Put(gb1[guild_id], "void_bets", Get(gb1[guild_id], "void_bets", 0) + 1)
        b2 == Put(b1, "pending_bets", Max(0, Get(b1, "pending_bets", 0) - 1))
    IN  [gb1 EXCEPT ![guild_id] = b2]

\* Variant: the summary starts with the new-day check
send_daily_bankroll_summary_rollover(gb, ab, guild_id, t) ==
    LET gb1 == initialize_bankroll(gb, guild_id, t)
        b1 == IF gb1[guild_id].last_reset # DateOf(t)
              THEN [gb1[guild_id] EXCEPT !.daily_profit = 0, !.bets_today = <<>>,
                                         !.last_reset = DateOf(t)]
              ELSE gb1[guild_id]
        pending_bets == Cardinality({m \in DOMAIN ab : ab[m].guild_id = guild_id})
    IN  [gb1 EXCEPT ![guild_id] = Put(b1, "pending_bets", pending_bets)]

\* send_daily_bankroll_summary(guild_id), when a notification channel is configured:
\* the pending count is recomputed from the active bets of this guild
send_daily_bankroll_summary(gb, ab, guild_id, t) ==
    LET gb1 == initialize_bankroll(gb, guild_id, t)
        pending_bets == Cardinality({m \in DOMAIN ab : ab[m].guild_id = guild_id})
    IN  [gb1 EXCEPT ![guild_id] = Put(@, "pending_bets", pending_bets)]

----------------------------------------------------------------------------
(* Outcome determination.  A Python result of True, False or None is one of
   the strings below. *)

PyTrue == "True"
PyFalse == "False"
PyNone == "None"
PyBool(b) == IF b THEN PyTrue ELSE PyFalse

\* The numeric tokens of the vocabulary: value in tenths (signed), whether the token
\* starts and ends with a digit, and whether it is parenthesised.
NumInfo ==
    [t \in {"2.5", "-1.5", "(+1.5)", "(-1.5)"} |->
        CASE t = "2.5"    -> [v |-> 25,  starts_digit |-> TRUE,  ends_digit |-> TRUE,  paren |-> FALSE]
          [] t = "-1.5"   -> [v |-> -15, starts_digit |-> FALSE, ends_digit |-> TRUE,  paren |-> FALSE]
          [] t = "(+1.5)" -> [v |-> 15,  starts_digit |-> FALSE, ends_digit |-> FALSE, paren |-> TRUE]
          [] t = "(-1.5)" -> [v |-> -15, starts_digit |-> FALSE, ends_digit |-> FALSE, paren |-> TRUE]]

IsNum(tok) == tok \in DOMAIN NumInfo
Abs(x) == IF x < 0 THEN 0 - x ELSE x
Least(S) == CHOOSE i \in S : \A j \in S : i <= j

\* `word in text`
Contains(text, word) == \E i \in DOMAIN text : text[i] = word
\* any(team_word in outcome for team_word in team.split())
AnyWordIn(team, text) == \E i \in DOMAIN team : Contains(text, team[i])

\* re.search(r'<kw>\s*(\d+\.?\d*)', outcome): positions of the number of each match
KwThenNum(outcome, kw) ==
    {i \in DOMAIN outcome : /\ i > 1
                            /\ outcome[i - 1] = kw
                            /\ IsNum(outcome[i])
                            /\ NumInfo[outcome[i]].starts_digit}
\* re.search(r'(\d+\.?\d*)\s*<kw>', outcome)
NumThenKw(outcome, kw) ==
    {i \in DOMAIN outcome : /\ i < Len(outcome)
                            /\ outcome[i + 1] = kw
                            /\ IsNum(outcome[i])
                            /\ NumInfo[outcome[i]].ends_digit}

\* The patterns of determine_totals_outcome, in the order they are tried
TotalsPatterns(outcome) ==
    <<KwThenNum(outcome, "over"), NumThenKw(outcome, "over"),
      KwThenNum(outcome, "under"), NumThenKw(outcome, "under"),
      KwThenNum(outcome, "o"), KwThenNum(outcome, "u"),
      NumThenKw(outcome, "pts")>>

\* "o " in outcome: a word ending in o that is followed by a blank
HasWordThenBlank(outcome, w) == \E i \in DOMAIN outcome : outcome[i] = w /\ i < Len(outcome)

\* determine_totals_outcome(outcome, total_score); total_score in tenths
determine_totals_outcome(outcome, total_score) ==
    LET pats == TotalsPatterns(outcome)
        hits == {k \in DOMAIN pats : pats[k] # {}}
    IN  IF hits = {}
        THEN PyNone                              \* line_value is None
        ELSE LET line_value == Abs(NumInfo[outcome[Least(pats[Least(hits)])]].v)
             IN  IF Contains(outcome, "over") \/ HasWordThenBlank(outcome, "o")
                 THEN PyBool(total_score > line_value)
                 ELSE IF Contains(outcome, "under") \/ HasWordThenBlank(outcome, "u")
                 THEN PyBool(total_score < line_value)
                 ELSE PyNone                     \* is_over is None

\* Variant: a selection that names neither team is settled as a bet on the draw
determine_h2h_outcome_guess(outcome, home_team, away_team, home_score, away_score) ==
    IF \E i \in DOMAIN home_team : \E j \in DOMAIN outcome : outcome[j] = home_team[i]
    THEN IF home_score > away_score THEN "True" ELSE "False"
    ELSE IF \E i \in DOMAIN away_team : \E j \in DOMAIN outcome : outcome[j] = away_team[i]
    THEN IF away_score > home_score THEN "True" ELSE "False"
    ELSE IF home_score = away_score THEN "True" ELSE "False"

\* determine_h2h_outcome(outcome, home_team, away_team, home_score, away_score)
determine_h2h_outcome(outcome, home_team, away_team, home_score, away_score) ==
    IF AnyWordIn(home_team, outcome)
    THEN PyBool(home_score > away_score)
    ELSE IF AnyWordIn(away_team, outcome)
    THEN PyBool(away_score > home_score)
    ELSE IF \E draw_word \in {"draw", "tie", "deadlock"} : Contains(outcome, draw_word)
    THEN PyBool(home_score = away_score)
    ELSE PyNone

\* The patterns of determine_spreads_outcome, in the order they are tried
SpreadPatterns(outcome) ==
    <<NumThenKw(outcome, "spread"), NumThenKw(outcome, "pts"), NumThenKw(outcome, "points"),
      {i \in DOMAIN outcome : IsNum(outcome[i]) /\ NumInfo[outcome[i]].paren},
      {i \in DOMAIN outcome : IsNum(outcome[i])}>>

\* determine_spreads_outcome(outcome, home_team, away_team, home_score, away_score);
\* scores in tenths
determine_spreads_outcome(outcome, home_team, away_team, home_score, away_score) ==
    LET pats == SpreadPatterns(outcome)
        hits == {k \in DOMAIN pats : pats[k] # {}}
    IN  IF hits = {}
        THEN PyNone                              \* spread_value is None
        ELSE LET spread_value == NumInfo[outcome[Least(pats[Least(hits)])]].v
             IN  IF AnyWordIn(home_team, outcome)
                 THEN PyBool(home_score + spread_value > away_score)
                 ELSE IF AnyWordIn(away_team, outcome)
                 THEN PyBool(away_score + spread_value > home_score)
                 ELSE PyNone

\* The score loop of determine_bet_outcome_enhanced: the scores found after the
\* entries from i on, as [home, away, error]; <<>> is None, <<x>> is the score x,
\* and error is a ValueError or TypeError of float().
RECURSIVE ExtractScores(_, _, _, _, _)
ExtractScores(scores, i, home_team, away_team, acc) ==
    IF i > Len(scores) \/ acc.error
    THEN acc
    ELSE LET team_name == scores[i].name
         IN  IF team_name = home_team \/ AnyWordIn(home_team, team_name)
             THEN ExtractScores(scores, i + 1, home_team, away_team,
                                IF scores[i].numeric
                                THEN [acc EXCEPT !.home = <<scores[i].score>>]
                                ELSE [acc EXCEPT !.error = TRUE])
             ELSE IF team_name = away_team \/ AnyWordIn(away_team, team_name)
             THEN ExtractScores(scores, i + 1, home_team, away_team,
                                IF scores[i].numeric
                                THEN [acc EXCEPT !.away = <<scores[i].score>>]
                                ELSE [acc EXCEPT !.error = TRUE])
             ELSE ExtractScores(scores, i + 1, home_team, away_team, acc)

\* determine_bet_outcome_enhanced(game_result, bet_info)
determine_bet_outcome_enhanced(game_result, bet_info) ==
    IF Len(game_result.scores) < 2
    THEN PyNone
    \* game_result.get("home_team", "").lower() on None: the AttributeError is not
    \* among the exceptions the function catches
    ELSE IF game_result.home_team_none
    THEN "AttributeError"
    ELSE LET found == ExtractScores(game_result.scores, 1, game_result.home_team,
                                    game_result.away_team,
                                    [home |-> <<>>, away |-> <<>>, error |-> FALSE])
         IN  IF found.error \/ found.home = <<>> \/ found.away = <<>>
             THEN PyNone
             ELSE LET home_score == found.home[1]
                      away_score == found.away[1]
                  IN  CASE bet_info.market_key = "h2h" ->
                             determine_h2h_outcome(bet_info.outcome, game_result.home_team,
                                 game_result.away_team, home_score, away_score)
                        [] bet_info.market_key = "totals" ->
                             determine_totals_outcome(bet_info.outcome,
                                 10 * (home_score + away_score))
                        [] bet_info.market_key = "spreads" ->
                             determine_spreads_outcome(bet_info.outcome, game_result.home_team,
                                 game_result.away_team, 10 * home_score, 10 * away_score)
                        [] OTHER -> PyNone

----------------------------------------------------------------------------
(* The environment: the active-bets file read at start-up and the scores API *)

\* The fixtures the scores API knows: event id -> lower-cased team names
Events == [e \in {"E1"} |-> [home_team |-> <<"lions">>, away_team |-> <<"tigers">>]]

\* What a stored bet can say: market, outcome text, stake (dollars), odds (hundredths)
BetTexts ==
    {[market_key |-> "h2h",       outcome |-> <<"lions">>,       stake |-> 20, odds |-> 250],
     [market_key |-> "totals",    outcome |-> <<"over", "2.5">>, stake |-> 10, odds |-> 180]}

\* More of what a stored bet can say, for the specification of a single stored bet
WideBetTexts ==
    BetTexts \cup
    {[market_key |-> "h2h",       outcome |-> <<"tigers">>,           stake |-> 10, odds |-> 180],
     [market_key |-> "h2h",       outcome |-> <<"draw">>,             stake |-> 10, odds |-> 180],
     [market_key |-> "h2h",       outcome |-> <<"bears">>,            stake |-> 10, odds |-> 180],
     [market_key |-> "totals",    outcome |-> <<"under", "2.5">>,     stake |-> 10, odds |-> 180],
     [market_key |-> "totals",    outcome |-> <<"over">>,             stake |-> 10, odds |-> 180],
     [market_key |-> "totals",    outcome |-> <<"2.5", "pts">>,       stake |-> 10, odds |-> 180],
     [market_key |-> "spreads",   outcome |-> <<"tigers", "(+1.5)">>, stake |-> 10, odds |-> 180],
     [market_key |-> "spreads",   outcome |-> <<"lions", "(-1.5)">>,  stake |-> 10, odds |-> 180],
     [market_key |-> "spreads",   outcome |-> <<"lions">>,            stake |-> 10, odds |-> 180],
     [market_key |-> "spreads",   outcome |-> <<"bears", "(+1.5)">>,  stake |-> 10, odds |-> 180],
     [market_key |-> "outrights", outcome |-> <<"lions">>,            stake |-> 10, odds |-> 180]}

\* The clock at start-up: 22:30 UTC of day 20, so that two steps of an hour reach the
\* next day
StartTime == 20 * SecondsPerDay + 22 * 3600 + 1800
\* Posting times of the stored bets: one hour, and one hour less than 14 days, before start-up
PostedTimes == {StartTime - 3600, StartTime - (TooOldSeconds - 3600)}
\* How far the clock moves in one step: an hour, or 14 days
TickSteps == {3600, 14 * SecondsPerDay}

\* The bet_info records load_active_bets can produce (channel_id, game and bookmaker,
\* which only address the Discord message, are left out)
BetInfosOf(texts) ==
    {[event_id |-> "E1", outcome |-> x.outcome, odds |-> x.odds, stake |-> Dollars(x.stake),
      guild_id |-> g, market_key |-> x.market_key, posted_time |-> p] :
        x \in texts, g \in Guilds, p \in PostedTimes}
\* The stored bets of the resolver's specification: a head-to-head bet posted an hour
\* before start-up, a totals bet posted almost 14 days before
BetInfos ==
    {b \in BetInfosOf(BetTexts) :
        b.market_key = "h2h" <=> b.posted_time = StartTime - 3600}

\* One entry of the scores list
Score(name, score) == [name |-> name, score |-> score, numeric |-> TRUE]

\* What get_game_result_enhanced can return for an event: None (no sport key knows the
\* event, or every request failed), or the first entry of a 200 response
NoResult == [found |-> FALSE, completed |-> FALSE, home_team |-> <<>>, away_team |-> <<>>,
             home_team_none |-> FALSE, scores |-> <<>>]
GameResults(event_id) ==
    LET ev == Events[event_id]
        base == [found |-> TRUE, completed |-> TRUE, home_team |-> ev.home_team,
                 away_team |-> ev.away_team, home_team_none |-> FALSE, scores |-> <<>>]
    IN  {NoResult, [base EXCEPT !.completed = FALSE]}
        \cup {[base EXCEPT !.scores = <<Score(ev.home_team, h), Score(ev.away_team, a)>>] :
                 <<h, a>> \in {<<2, 1>>, <<1, 2>>, <<1, 1>>}}
        \cup {[base EXCEPT !.scores = <<Score(ev.home_team, 2)>>],
              [base EXCEPT !.scores = <<Score(ev.home_team, 2),
                                        [name |-> ev.away_team, score |-> 0, numeric |-> FALSE]>>]}

\* A completed result the API gives without a home team ("home_team": null), as it
\* does for events that have none
MalformedResults(event_id) ==
    {[found |-> TRUE, completed |-> TRUE, home_team |-> <<>>,
      away_team |-> Events[event_id].away_team, home_team_none |-> TRUE,
      scores |-> <<Score(Events[event_id].home_team, 2),
                   Score(Events[event_id].away_team, 1)>>]}

\* sorted(active_bets.items(), key=posted_time): the message ids, oldest first (bets
\* posted at the same time keep the order of the dictionary, taken to be that of the ids)
SortedBets(ab) ==
    LET n == Cardinality(DOMAIN ab)
    IN  CHOOSE q \in [1..n -> DOMAIN ab] :
            \A i, j \in 1..n :
                i < j => \/ ab[q[i]].posted_time < ab[q[j]].posted_time
                         \/ ab[q[i]].posted_time = ab[q[j]].posted_time /\ q[i] < q[j]

\* The JSON text of a message id (json.dump writes str(bet_id)) and int(bet_id)
KeyText(message_id) == [digits |-> message_id]
KeyInt(text) == text.digits
\* posted_time.isoformat(): the ISO text of a time
isoformat(t) == [iso |-> TRUE, time |-> t]
\* serializable_bets: every bet copied, its posted_time as ISO text
Serializable(ab) ==
    [k \in {KeyText(m) : m \in DOMAIN ab} |->
        [ab[KeyInt(k)] EXCEPT !.posted_time = isoformat(@)]]

\* save_active_bets_to_file, called when the pass completed some bet: the file is
\* rewritten only when a bet is left in active_bets
save_active_bets_to_file(file, ab, some_completed) ==
    IF some_completed /\ DOMAIN ab # {} THEN Serializable(ab) ELSE file

\* load_active_bets at time t: the bets of the file under their integer ids, with
\* posted_time parsed, or the time of loading when the text is no ISO timestamp
load_active_bets(file, t) ==
    [m \in {KeyInt(k) : k \in DOMAIN file} |->
        [file[KeyText(m)] EXCEPT !.posted_time = IF @.iso THEN @.time ELSE t]]

NoSummary == [resolved |-> 0, failed |-> 0, waiting |-> 0, expired |-> 0]

\* The log line written when a bet is settled: "Expired bet ... marked as void",
\* "Bet ... resolved: WON" / "LOST", "Bet flagged for manual review"
Logged(log, message_id, kind, guild_id) ==
    [log EXCEPT ![message_id] = Append(@, [kind |-> kind, guild_id |-> guild_id])]

----------------------------------------------------------------------------
(* Initial state: on_ready has loaded the files; there is no bankroll file *)

\* The upstream URLs: the odds of a (sport_key, market) pair, and the sports list
OddsKeys == {<<"soccer_epl", "h2h">>, <<"soccer_epl", "totals">>}
SportsUrl == <<"sports">>
Urls == OddsKeys \cup {SportsUrl}
\* Nothing was requested yet.  count: the requests each URL received; url, answer,
\* time: the last answer given, and when the call it went to had started
NoRequests == [count |-> [u \in Urls |-> 0], url |-> <<>>, answer |-> "none", time |-> 0]
\* No call is in progress; calls counts the calls made so far
IdleFetch(calls) == [pc |-> "idle", calls |-> calls, key |-> <<>>, now |-> 0, first |-> "none"]

InitProgram ==
    /\ guild_bankrolls = <<>>
    /\ now = StartTime
    /\ ticks = 0
    /\ commands = 0
    /\ ev_sent_ids = [g \in Guilds |-> {}]
    /\ sent_alerts = <<>>
    /\ scans = [j \in Jobs |-> IdleScan]
    /\ scans_started = 0
    /\ odds_cache = <<>>
    /\ sports_cache = [data |-> <<>>, timestamp |-> 0]
    /\ requests = NoRequests
    /\ fetch = IdleFetch(0)
    /\ file_bankrolls = <<>>
    /\ file_active_bets = Serializable(active_bets)
    /\ pc = "idle"
    /\ current_time = 0
    /\ sorted_bets = <<>>
    /\ completed_bets = <<>>
    /\ results_summary = NoSummary
    /\ bet_log = [m \in MessageIds |-> <<>>]
    /\ last_op = [op |-> "on_ready"]

\* No detection or sizing function is being looked at
InitRest ==
    /\ InitProgram
    /\ calc = [op |-> "none"]

\* The active-bets file holds up to MaxBets bets
Init ==
    /\ \E n \in 0..MaxBets : active_bets \in [1..n -> BetInfos]
    /\ InitRest

\* The m-th stored bet of the ledger's specifications: a $20 head-to-head bet at 2.50
\* and a $10 totals bet at 1.80 in turn, of the first guild, posted an hour before
\* start-up
LedgerBet(m) ==
    LET x == CHOOSE x \in BetTexts : x.market_key = (IF m % 2 = 1 THEN "h2h" ELSE "totals")
    IN  [event_id |-> "E1", outcome |-> x.outcome, odds |-> x.odds, stake |-> Dollars(x.stake),
         guild_id |-> 1, market_key |-> x.market_key, posted_time |-> StartTime - 3600]

\* The active-bets file holds the first bets, up to MaxBets, of that list
InitLedger ==
    /\ \E n \in 0..MaxBets : active_bets = [m \in 1..n |-> LedgerBet(m)]
    /\ InitRest

\* There is no active-bets file
InitNoBets ==
    /\ active_bets = <<>>
    /\ InitRest

\* The active-bets file holds a single bet, which can say anything of WideBetTexts
InitOneBet ==
    /\ active_bets \in [{1} -> BetInfosOf(WideBetTexts)]
    /\ InitRest

----------------------------------------------------------------------------
(* Actions *)

\* The clock advances (between two passes of the result check)
Tick ==
    /\ ticks < MaxTicks
    /\ pc = "idle"
    /\ \E d \in TickSteps : now' = now + d
    /\ ticks' = ticks + 1
    /\ last_op' = [op |-> "tick"]
    /\ UNCHANGED <<guild_bankrolls, active_bets, commands, pc, current_time, sorted_bets,
                   completed_bets, results_summary, bet_log, ev_vars, file_vars>>

\* check_bet_results, up to the loop (with no active bet it returns at once)
CheckBetResultsStart ==
    /\ pc = "idle"
    /\ DOMAIN active_bets # {}
    /\ pc' = "checking"
    /\ current_time' = now
    /\ sorted_bets' = SortedBets(active_bets)
    /\ completed_bets' = <<>>
    /\ results_summary' = NoSummary
    /\ last_op' = [op |-> "check_start"]
    /\ UNCHANGED <<guild_bankrolls, active_bets, now, ticks, commands, bet_log, ev_vars,
                   file_vars>>

\* The bet the loop of check_bet_results visits next
NextBet == Head(sorted_bets)
TimeSincePosted(m) == current_time - active_bets[m].posted_time
TooNew(m) == TimeSincePosted(m) < TooNewSeconds
TooOld(m) == TimeSincePosted(m) > TooOldSeconds

\* What every branch of the loop body leaves alone
LoopFrame ==
    /\ pc' = pc
    /\ sorted_bets' = Tail(sorted_bets)
    /\ UNCHANGED <<active_bets, now, ticks, commands, current_time, ev_vars,
                   file_active_bets>>

\* Loop body: the bet was posted less than two hours ago
CheckTooNew ==
    /\ pc = "checking" /\ sorted_bets # <<>>
    /\ TooNew(NextBet)
    /\ results_summary' = [results_summary EXCEPT !.waiting = @ + 1]
    /\ last_op' = [op |-> "too_new", message_id |-> NextBet]
    /\ LoopFrame
    /\ UNCHANGED <<guild_bankrolls, completed_bets, bet_log, file_bankrolls>>

\* Variant: the expired bet is voided but not put on the list of bets to drop
CheckExpired_Keeps ==
    /\ pc = "checking" /\ sorted_bets # <<>>
    /\ ~TooNew(NextBet) /\ TooOld(NextBet)
    /\ guild_bankrolls' = handle_expired_bet(guild_bankrolls, active_bets[NextBet], now)
    /\ file_bankrolls' = guild_bankrolls'
    /\ results_summary' = [results_summary EXCEPT !.expired = @ + 1]
    /\ bet_log' = Logged(bet_log, NextBet, "void", active_bets[NextBet].guild_id)
    /\ last_op' = [op |-> "expired", message_id |-> NextBet]
    /\ LoopFrame
    /\ UNCHANGED completed_bets

\* Loop body: the bet is older than 14 days
CheckExpired ==
    /\ pc = "checking" /\ sorted_bets # <<>>
    /\ ~TooNew(NextBet) /\ TooOld(NextBet)
    /\ guild_bankrolls' = handle_expired_bet(guild_bankrolls, active_bets[NextBet], now)
    /\ file_bankrolls' = guild_bankrolls'
    /\ completed_bets' = Append(completed_bets, NextBet)
    /\ results_summary' = [results_summary EXCEPT !.expired = @ + 1]
    /\ bet_log' = Logged(bet_log, NextBet, "void", active_bets[NextBet].guild_id)
    /\ last_op' = [op |-> "expired", message_id |-> NextBet]
    /\ LoopFrame

\* Loop body: a completed result whose outcome is determined
CheckResolved ==
    /\ pc = "checking" /\ sorted_bets # <<>>
    /\ ~TooNew(NextBet) /\ ~TooOld(NextBet)
    /\ \E result \in GameResults(active_bets[NextBet].event_id) :
        LET bet_info == active_bets[NextBet]
            bet_outcome == determine_bet_outcome_enhanced(result, bet_info)
        IN  /\ result.found /\ result.completed
            /\ bet_outcome # PyNone
            /\ guild_bankrolls' = update_bankroll_result_enhanced(guild_bankrolls,
                   bet_info.guild_id, bet_info.stake, bet_info.odds, bet_outcome = PyTrue,
                   bet_info, now)
            /\ file_bankrolls' = guild_bankrolls'
            /\ bet_log' = Logged(bet_log, NextBet,
                                  IF bet_outcome = PyTrue THEN "won" ELSE "lost",
                                  bet_info.guild_id)
            /\ last_op' = [op |-> "resolved", message_id |-> NextBet, result |-> result,
                           won |-> (bet_outcome = PyTrue)]
    /\ completed_bets' = Append(completed_bets, NextBet)
    /\ results_summary' = [results_summary EXCEPT !.resolved = @ + 1]
    /\ LoopFrame

\* Loop body: a completed result whose outcome is unclear
CheckNeedsReview ==
    /\ pc = "checking" /\ sorted_bets # <<>>
    /\ ~TooNew(NextBet) /\ ~TooOld(NextBet)
    /\ \E result \in GameResults(active_bets[NextBet].event_id) :
        /\ result.found /\ result.completed
        /\ determine_bet_outcome_enhanced(result, active_bets[NextBet]) = PyNone
        /\ last_op' = [op |-> "needs_review", message_id |-> NextBet, result |-> result]
    /\ bet_log' = Logged(bet_log, NextBet, "review", active_bets[NextBet].guild_id)
    /\ completed_bets' = Append(completed_bets, NextBet)
    /\ results_summary' = [results_summary EXCEPT !.failed = @ + 1]
    /\ LoopFrame
    /\ UNCHANGED <<guild_bankrolls, file_bankrolls>>

\* Loop body: no result yet, or the game is not completed
CheckWaiting ==
    /\ pc = "checking" /\ sorted_bets # <<>>
    /\ ~TooNew(NextBet) /\ ~TooOld(NextBet)
    /\ \E result \in GameResults(active_bets[NextBet].event_id) :
        /\ ~(result.found /\ result.completed)
        /\ last_op' = [op |-> "waiting", message_id |-> NextBet, result |-> result]
    /\ results_summary' = [results_summary EXCEPT !.waiting = @ + 1]
    /\ LoopFrame
    /\ UNCHANGED <<guild_bankrolls, completed_bets, bet_log, file_bankrolls>>

\* Variant: the bet whose processing raised is dropped like one flagged for review
CheckFailed_Completes ==
    /\ pc = "checking" /\ sorted_bets # <<>>
    /\ ~TooNew(NextBet) /\ ~TooOld(NextBet)
    /\ \E result \in MalformedResults(active_bets[NextBet].event_id) :
        /\ result.found /\ result.completed
        /\ determine_bet_outcome_enhanced(result, active_bets[NextBet]) = "AttributeError"
        /\ last_op' = [op |-> "failed", message_id |-> NextBet, result |-> result]
    /\ completed_bets' = Append(completed_bets, NextBet)
    /\ results_summary' = [results_summary EXCEPT !.failed = @ + 1]
    /\ LoopFrame
    /\ UNCHANGED <<guild_bankrolls, bet_log, file_bankrolls>>

\* Loop body: determine_bet_outcome_enhanced raises; the except clause of the loop
\* body logs the error and counts the bet as failed
CheckFailed ==
    /\ pc = "checking" /\ sorted_bets # <<>>
    /\ ~TooNew(NextBet) /\ ~TooOld(NextBet)
    /\ \E result \in MalformedResults(active_bets[NextBet].event_id) :
        /\ result.found /\ result.completed
        /\ determine_bet_outcome_enhanced(result, active_bets[NextBet]) = "AttributeError"
        /\ last_op' = [op |-> "failed", message_id |-> NextBet, result |-> result]
    /\ results_summary' = [results_summary EXCEPT !.failed = @ + 1]
    /\ LoopFrame
    /\ UNCHANGED <<guild_bankrolls, completed_bets, bet_log, file_bankrolls>>

\* Variant: every bet the pass visited leaves the active set
CheckBetResultsFinish_DropsAll ==
    /\ pc = "checking" /\ sorted_bets = <<>>
    /\ active_bets' = <<>>
    /\ file_active_bets' = save_active_bets_to_file(file_active_bets, <<>>,
                                                    completed_bets # <<>>)
    /\ pc' = "idle"
    /\ current_time' = 0
    /\ completed_bets' = <<>>
    /\ results_summary' = NoSummary
    /\ last_op' = [op |-> "check_finish", removed |-> Range(completed_bets)]
    /\ UNCHANGED <<guild_bankrolls, now, ticks, commands, sorted_bets, bet_log, ev_vars,
                   file_bankrolls>>

\* check_bet_results, after the loop: the completed bets leave the active set
CheckBetResultsFinish ==
    /\ pc = "checking" /\ sorted_bets = <<>>
    /\ active_bets' = [m \in DOMAIN active_bets \ Range(completed_bets) |-> active_bets[m]]
    /\ file_active_bets' = save_active_bets_to_file(
                               file_active_bets,
                               [m \in DOMAIN active_bets \ Range(completed_bets) |-> active_bets[m]],
                               completed_bets # <<>>)
    /\ pc' = "idle"
    /\ current_time' = 0
    /\ completed_bets' = <<>>
    /\ results_summary' = NoSummary
    /\ last_op' = [op |-> "check_finish", removed |-> Range(completed_bets)]
    /\ UNCHANGED <<guild_bankrolls, now, ticks, commands, sorted_bets, bet_log, ev_vars,
                   file_bankrolls>>

\* Amounts (dollars) an operator types into the set-bankroll modal
BankrollAmounts == {500}

\* An operator command or a summary: what it needs and what it leaves alone
LedgerFrame ==
    /\ commands < MaxCommands
    /\ commands' = commands + 1
    /\ UNCHANGED <<active_bets, now, ticks, pc, current_time, sorted_bets,
                   completed_bets, results_summary, bet_log, ev_vars, file_active_bets>>

\* set_bankroll_amount(guild_id, new_amount)
SetBankrollAmount ==
    /\ \E guild_id \in Guilds, amount \in BankrollAmounts :
        /\ guild_bankrolls' = set_bankroll_amount(guild_bankrolls, guild_id, Dollars(amount), now)
        /\ file_bankrolls' = guild_bankrolls'
        /\ last_op' = [op |-> "set_bankroll_amount", guild_id |-> guild_id]
    /\ LedgerFrame

\* SetBankrollModal.on_submit with a positive amount
SetBankrollModal ==
    /\ \E guild_id \in Guilds, amount \in BankrollAmounts :
        /\ guild_bankrolls' = SetBankrollModal_on_submit(guild_bankrolls, guild_id,
                                                         Dollars(amount), now)
        /\ file_bankrolls' = guild_bankrolls'
        /\ last_op' = [op |-> "set_bankroll_modal", guild_id |-> guild_id]
    /\ LedgerFrame

\* ResetBankrollButton.callback
ResetBankroll ==
    /\ \E guild_id \in Guilds :
        /\ guild_bankrolls' = ResetBankrollButton_callback(guild_bankrolls, guild_id, now)
        /\ file_bankrolls' = guild_bankrolls'
        /\ last_op' = [op |-> "reset_bankroll", guild_id |-> guild_id]
    /\ LedgerFrame

\* send_daily_bankroll_summary(guild_id) with a notification channel configured
\* (without one it returns before touching the bankroll)
DailySummary ==
    /\ \E guild_id \in Guilds :
        /\ guild_bankrolls' = send_daily_bankroll_summary(guild_bankrolls, active_bets,
                                                          guild_id, now)
        \* only initialize_bankroll saves, and only when it creates the bankroll
        /\ file_bankrolls' = IF guild_id \in DOMAIN guild_bankrolls
                             THEN file_bankrolls
                             ELSE initialize_bankroll(guild_bankrolls, guild_id, now)
        /\ last_op' = [op |-> "daily_summary", guild_id |-> guild_id]
    /\ LedgerFrame

\* The +EV opportunities a scan can find: find_ev_opportunities' event, outcome, market,
\* best odds (hundredths) and EV (percent)
EvOpportunities ==
    {[event_id |-> "E1", outcome |-> <<"lions">>, market_key |-> "h2h",
      offered_odds |-> 250, ev |-> 8],
     [event_id |-> "E1", outcome |-> <<"over", "2.5">>, market_key |-> "totals",
      offered_odds |-> 180, ev |-> 6]}

\* The scans' result lists: up to two opportunities, in any order; a market yields
\* an outcome of an event once
EvLists == {q \in UNION {[1..n -> EvOpportunities] : n \in 1..2} :
               \A i, j \in DOMAIN q : q[i] = q[j] => i = j}

\* f"{ev['event']['id']}-{ev['outcome']}"
IdKey(ev) == <<ev.event_id, ev.outcome>>

\* The list without the entries that fail the test, in order
RECURSIVE SelectNew(_, _)
SelectNew(evs, sent) ==
    IF evs = <<>> THEN <<>>
    ELSE IF IdKey(Head(evs)) \in sent THEN SelectNew(Tail(evs), sent)
    ELSE <<Head(evs)>> \o SelectNew(Tail(evs), sent)

\* new_evs[:5]
FirstFive(q) == SubSeq(q, 1, IF Len(q) < 5 THEN Len(q) ELSE 5)

\* The id Discord gives the next message: larger than every id so far
NextMessageId(alerts) == MaxBets + Len(alerts) + 1

\* The loop of send_ev_alert over new_evs[:5]: each alert is posted and appended to
\* sent_alerts.  The bet_info the loop builds for each alert is assigned to a local
\* variable and never stored.
RECURSIVE PostAlerts(_, _, _)
PostAlerts(alerts, guild_id, todo) ==
    IF todo = <<>> THEN alerts
    ELSE PostAlerts(Append(alerts, [guild_id |-> guild_id,
                                    message_id |-> NextMessageId(alerts),
                                    alert_type |-> "ev",
                                    event_id |-> Head(todo).event_id,
                                    outcome |-> Head(todo).outcome]),
                    guild_id, Tail(todo))

\* What the body shared by send_ev_alert and send_ev_alert_with_data does with the
\* opportunities evs of a scan
EvAlertBody(guild_id, evs) ==
    LET new_evs == SelectNew(evs, ev_sent_ids[guild_id])
    IN  /\ new_evs # <<>>
        /\ sent_alerts' = PostAlerts(sent_alerts, guild_id, FirstFive(new_evs))
        /\ ev_sent_ids' = [ev_sent_ids EXCEPT ![guild_id] =
                               @ \cup {IdKey(FirstFive(new_evs)[i]) : i \in DOMAIN FirstFive(new_evs)}]
        /\ UNCHANGED <<guild_bankrolls, active_bets, now, ticks, commands, pc, current_time,
                       sorted_bets, completed_bets, results_summary, bet_log, file_vars,
                       scan_vars, calc, cache_vars>>

\* send_ev_alert(guild_id, channel): the scan fetched its own odds
SendEvAlert ==
    \E guild_id \in Guilds, evs \in EvLists :
        /\ EvAlertBody(guild_id, evs)
        /\ last_op' = [op |-> "send_ev_alert", guild_id |-> guild_id,
                       first_message_id |-> NextMessageId(sent_alerts)]

\* send_ev_alert_with_data(guild_id, channel, global_data): the scan used the global data
SendEvAlertWithData ==
    \E guild_id \in Guilds, evs \in EvLists :
        /\ EvAlertBody(guild_id, evs)
        /\ last_op' = [op |-> "send_ev_alert_with_data", guild_id |-> guild_id,
                       first_message_id |-> NextMessageId(sent_alerts)]

\* The scans as the tasks they are.  A scan gives up control at each await: while
\* it fetches odds, while channel.send posts an alert, and while add_ev_sent_id
\* saves the settings.  Every guild has its EV channel set and EV scanning enabled,
\* and arbitrage scanning disabled.

ScanFrame ==
    UNCHANGED <<guild_bankrolls, active_bets, now, ticks, commands, pc, current_time,
                sorted_bets, completed_bets, results_summary, bet_log, file_vars, calc,
                cache_vars>>

\* The alert sender is entered for the guilds from guild_id to last_guild in turn:
\* it reads ev_sent_ids, returns when nothing is new, and otherwise starts to post
\* the first of new_evs[:5]
BeginAlerts(evs, guild_id, last_guild, sent) ==
    LET with_new == {g \in guild_id..last_guild : SelectNew(evs, sent[g]) # <<>>}
    IN  IF with_new = {} THEN IdleScan
        ELSE [pc |-> "send", guild_id |-> Least(with_new), last_guild |-> last_guild,
              evs |-> evs, todo |-> FirstFive(SelectNew(evs, sent[Least(with_new)]))]

\* A job starts and awaits the odds: the hourly task and the Global Scan button go
\* through every guild, the Force EV Scan button scans its own guild.  The loop of
\* tasks.loop starts the hourly task again only when its last run has returned; a
\* button's callback is its own task.
StartScan ==
    \E job \in Jobs, guild_id \in Guilds :
        /\ scans_started < MaxScans
        /\ scans[job].pc = "idle"
        /\ job \in {"hourly", "global"} => guild_id = 1
        /\ scans' = [scans EXCEPT ![job] =
                         [pc |-> "fetch", guild_id |-> guild_id,
                          last_guild |-> IF job = "force" THEN guild_id ELSE MaxGuilds,
                          evs |-> <<>>, todo |-> <<>>]]
        /\ scans_started' = scans_started + 1
        /\ last_op' = [op |-> "start_scan", job |-> job]
        /\ UNCHANGED <<ev_sent_ids, sent_alerts>>
        /\ ScanFrame

\* The odds arrive (possibly none) and the alert sender runs up to its first
\* channel.send
OddsFetched ==
    \E job \in Jobs, evs \in EvLists \cup {<<>>} :
        /\ scans[job].pc = "fetch"
        /\ scans' = [scans EXCEPT ![job] =
                         BeginAlerts(evs, @.guild_id, @.last_guild, ev_sent_ids)]
        /\ last_op' = [op |-> "odds_fetched", job |-> job]
        /\ UNCHANGED <<ev_sent_ids, sent_alerts, scans_started>>
        /\ ScanFrame

\* channel.send returns: the alert is appended to sent_alerts, and add_ev_sent_id
\* adds its key to the guild's ev_sent_ids and awaits save_settings_async
AlertPosted ==
    \E job \in Jobs :
        /\ scans[job].pc = "send"
        /\ sent_alerts' = PostAlerts(sent_alerts, scans[job].guild_id,
                                     <<Head(scans[job].todo)>>)
        /\ ev_sent_ids' = [ev_sent_ids EXCEPT ![scans[job].guild_id] =
                               @ \cup {IdKey(Head(scans[job].todo))}]
        /\ scans' = [scans EXCEPT ![job].pc = "save"]
        /\ last_op' = [op |-> "alert_posted", job |-> job,
                       guild_id |-> scans[job].guild_id]
        /\ UNCHANGED scans_started
        /\ ScanFrame

\* save_settings_async returns: the loop goes on to its next alert, or the sender
\* returns and the job goes on to its next guild
SettingsSaved ==
    \E job \in Jobs :
        /\ scans[job].pc = "save"
        /\ scans' = [scans EXCEPT ![job] =
                         IF Tail(@.todo) # <<>>
                         THEN [@ EXCEPT !.pc = "send", !.todo = Tail(@)]
                         ELSE BeginAlerts(@.evs, @.guild_id + 1, @.last_guild, ev_sent_ids)]
        /\ last_op' = [op |-> "settings_saved", job |-> job]
        /\ UNCHANGED <<ev_sent_ids, sent_alerts, scans_started>>
        /\ ScanFrame

NextScans ==
    \/ StartScan
    \/ OddsFetched
    \/ AlertPosted
    \/ SettingsSaved

SpecScans == InitNoBets /\ [][NextScans]_vars

\* The process is stopped at any point and started again: on_ready loads both files;
\* what a pass had in flight is gone
Restart ==
    /\ commands < MaxCommands
    /\ commands' = commands + 1
    /\ guild_bankrolls' = file_bankrolls
    /\ active_bets' = load_active_bets(file_active_bets, now)
    /\ pc' = "idle"
    /\ current_time' = 0
    /\ sorted_bets' = <<>>
    /\ completed_bets' = <<>>
    /\ results_summary' = NoSummary
    /\ sent_alerts' = <<>>
    /\ scans' = [j \in Jobs |-> IdleScan]
    /\ last_op' = [op |-> "restart"]
    /\ UNCHANGED <<now, ticks, bet_log, ev_sent_ids, scans_started, file_vars, calc,
                   cache_vars>>

\* The EV flow
NextEV ==
    \/ SendEvAlert
    \/ SendEvAlertWithData

SpecEV == InitNoBets /\ [][NextEV]_vars

\* The resolver: the 30-minute result check and the clock
NextResolver ==
    \/ Tick
    \/ CheckBetResultsStart
    \/ CheckTooNew
    \/ CheckExpired
    \/ CheckResolved
    \/ CheckNeedsReview
    \/ CheckWaiting
    \/ CheckBetResultsFinish

SpecResolver == Init /\ [][NextResolver]_vars

\* The resolver on a single stored bet of any text
SpecOneBet == InitOneBet /\ [][NextResolver]_vars

\* The resolver together with the daily summary and the operator's bankroll commands
Next ==
    \/ NextResolver
    \/ DailySummary
    \/ SetBankrollAmount
    \/ SetBankrollModal
    \/ ResetBankroll

Spec == InitLedger /\ [][Next]_vars

\* The resolver when the scores API can also give a result without a home team
NextFailing ==
    \/ NextResolver
    \/ CheckFailed

SpecFailing == InitLedger /\ [][NextFailing]_vars

\* The resolver and restarts of the process
NextRestart ==
    \/ NextResolver
    \/ Restart

SpecRestart == InitLedger /\ [][NextRestart]_vars

\* The resolver together with the daily summary and set_bankroll_amount
NextDaily ==
    \/ NextResolver
    \/ DailySummary
    \/ SetBankrollAmount

SpecDaily == InitLedger /\ [][NextDaily]_vars

\* The resolver together with the daily summary and the reset button
NextVoid ==
    \/ NextResolver
    \/ DailySummary
    \/ ResetBankroll

SpecVoid == InitLedger /\ [][NextVoid]_vars

\* The resolver together with the daily summary
NextPending ==
    \/ NextResolver
    \/ DailySummary

SpecPending == InitLedger /\ [][NextPending]_vars

----------------------------------------------------------------------------
(* Arbitrage and EV detection.  A price is in hundredths, like the odds of a
   bet.  A sum of implied probabilities is an exact fraction <<num, den>> with
   den > 0; a margin or EV in percent is such a fraction too.  An outcome label
   is a string of the labels below; a normalized key is the tuple of the parts
   the code formats into one string. *)

\* a/b compared with c/d, for positive denominators
FracLess(x, y) == x[1] * y[2] < y[1] * x[2]
FracLeq(x, y) == x[1] * y[2] <= y[1] * x[2]
FracEq(x, y) == x[1] * y[2] = y[1] * x[2]
\* A fraction in lowest terms
RECURSIVE GCD(_, _)
GCD(a, b) == IF b = 0 THEN a ELSE GCD(b, a % b)
Frac(num, den) == <<num \div GCD(Abs(num), den), den \div GCD(Abs(num), den)>>
FracAdd(x, y) ==
    LET g == GCD(x[2], y[2])
    IN  Frac(x[1] * (y[2] \div g) + y[1] * (x[2] \div g), (x[2] \div g) * y[2])
\* 1 / price
Implied(price) == Frac(100, price)

\* The labels bookmakers use
Labels == {"Lions", "LIONS", "Tigers", "Draw", "Tie", "Over", "over", "Under"}

\* name.strip().lower()
StripLower(name) ==
    CASE name \in {"Lions", "LIONS"} -> "lions"
      [] name = "Tigers" -> "tigers"
      [] name = "Draw" -> "draw"
      [] name = "Tie" -> "tie"
      [] name \in {"Over", "over"} -> "over"
      [] name = "Under" -> "under"

\* str.title() of a lower-cased label
Title(name) ==
    CASE name = "lions" -> "Lions"
      [] name = "tigers" -> "Tigers"
      [] name = "draw" -> "Draw"
      [] name = "tie" -> "Tie"
      [] name = "over" -> "Over"
      [] name = "under" -> "Under"

\* normalize_outcome_name(name, market_key, outcome)
normalize_outcome_name(name, market_key, outcome) ==
    LET lower == StripLower(name)
        point == Get(outcome, "point", 0)
    IN  CASE market_key = "h2h" ->
               IF lower \in {"draw", "tie", "deadlock"} THEN <<"draw">> ELSE <<Title(lower)>>
          [] market_key = "totals" ->
               IF lower = "over" THEN <<"Over", point>>
               ELSE IF lower = "under" THEN <<"Under", point>>
               ELSE <<Title(lower), point>>
          [] market_key = "spreads" -> <<Title(lower), "(", point, ")">>
          [] OTHER -> <<Title(lower)>>

\* `not odds or odds <= 1.01 or odds > 50` is false
ValidPrice(price) == price # 0 /\ price > MinValidPrice /\ price <= MaxValidPrice

\* datetime.fromisoformat(event['commence_time'].replace('Z', '+00:00')): the time
\* of an ISO timestamp, or the exception raised
ParseCommenceTime(event) ==
    IF "commence_time" \notin DOMAIN event THEN [raised |-> "KeyError", time |-> 0]
    ELSE IF event.commence_time.iso THEN [raised |-> "", time |-> event.commence_time.time]
    ELSE [raised |-> "ValueError", time |-> 0]

\* Variant: an event that starts in exactly seven days is skipped
InWindow_HalfOpen(event_time, t) ==
    ~(event_time - t < WindowMinSeconds \/ event_time - t >= WindowMaxSeconds)

\* The test both detectors make on the time until the event starts
InWindow(event_time, t) ==
    ~(event_time - t < WindowMinSeconds \/ event_time - t > WindowMaxSeconds)

\* The valid quotes of the allowed bookmakers of an event in a market, with the
\* positions of the bookmaker in the event's list, of the market in the
\* bookmaker's list and of the outcome in the market's list
QuotesOf(event, market_key, allowed_books) ==
    {[index |-> i, market |-> j, pos |-> k, title |-> event.bookmakers[i].title,
      outcome |-> event.bookmakers[i].markets[j].outcomes[k]] :
        <<i, j, k>> \in
            {x \in (DOMAIN event.bookmakers) \X (1..2) \X (1..3) :
                /\ event.bookmakers[x[1]].title \in allowed_books
                /\ x[2] \in DOMAIN event.bookmakers[x[1]].markets
                /\ event.bookmakers[x[1]].markets[x[2]].key = market_key
                /\ x[3] \in DOMAIN event.bookmakers[x[1]].markets[x[2]].outcomes
                /\ ValidPrice(event.bookmakers[x[1]].markets[x[2]].outcomes[x[3]].price)}}

\* The greatest of a non-empty set of numbers
Greatest(S) == CHOOSE i \in S : \A j \in S : i >= j

\* find_arbitrage's outcome_odds: normalized key -> bookmaker -> its best price
OutcomeOdds(event, market_key, allowed_books) ==
    LET quotes == QuotesOf(event, market_key, allowed_books)
        key(q) == normalize_outcome_name(q.outcome.name, market_key, q.outcome)
        keys == {key(q) : q \in quotes}
    IN  [k \in keys |->
            [b \in {q.title : q \in {r \in quotes : key(r) = k}} |->
                Greatest({q.outcome.price : q \in {r \in quotes : key(r) = k /\ r.title = b}})]]

\* Variant: the lowest price of an outcome is taken for the best
BestPrice_Lowest(bookmaker_odds) ==
    Least({bookmaker_odds[b] : b \in DOMAIN bookmaker_odds})

\* max(bookmaker_odds.values())
BestPrice(bookmaker_odds) ==
    Greatest({bookmaker_odds[b] : b \in DOMAIN bookmaker_odds})

\* sum(1 / odds for odds, _ in best_odds.values())
RECURSIVE InvSum(_, _)
InvSum(best_odds, keys) ==
    IF keys = {} THEN <<0, 1>>
    ELSE LET k == CHOOSE k \in keys : TRUE
         IN  FracAdd(Implied(best_odds[k].price), InvSum(best_odds, keys \ {k}))

\* (1 - inv_sum) * 100
MarginOf(inv_sum) == Frac(100 * (inv_sum[2] - inv_sum[1]), inv_sum[2])

\* calculate_arbitrage_opportunity(outcome_odds, event, market_key, min_margin), the
\* minimum margin in tenths of a percent; the bookmaker of a best price is the
\* first one of the event's list that offers it.  <<>> is None and <<x>> the
\* tuple x
calculate_arbitrage_opportunity(outcome_odds, event, market_key, min_margin) ==
    LET best_odds == [k \in DOMAIN outcome_odds |->
                         [price |-> BestPrice(outcome_odds[k]),
                          bookmaker |->
                              event.bookmakers[Least({i \in DOMAIN event.bookmakers :
                                  /\ event.bookmakers[i].title \in DOMAIN outcome_odds[k]
                                  /\ outcome_odds[k][event.bookmakers[i].title]
                                         = BestPrice(outcome_odds[k])})].title]]
        inv_sum == InvSum(best_odds, DOMAIN best_odds)
        margin == MarginOf(inv_sum)
    IN  IF Cardinality(DOMAIN best_odds) < 2 THEN <<>>
        ELSE IF FracLess(<<0, 1>>, inv_sum) /\ FracLess(inv_sum, <<1, 1>>)
                /\ FracLeq(<<min_margin, 10>>, margin)
        THEN <<[event |-> event, best_odds |-> best_odds, margin |-> margin,
                market_key |-> market_key]>>
        ELSE <<>>

\* The body of find_arbitrage's loop for one event: the opportunities it appends
ArbitrageOfEvent(event, market_key, min_margin, allowed_books, t) ==
    IF ParseCommenceTime(event).raised \in {"ValueError", "KeyError"} THEN <<>>
    ELSE IF ~InWindow(ParseCommenceTime(event).time, t) THEN <<>>
    ELSE IF Get(event, "bookmakers", <<>>) = <<>> THEN <<>>
    ELSE LET outcome_odds == OutcomeOdds(event, market_key, allowed_books)
             valid_bookmakers == {event.bookmakers[i].title : i \in DOMAIN event.bookmakers}
                                     \cap allowed_books
         IN  IF Cardinality(DOMAIN outcome_odds) = 2 /\ Cardinality(valid_bookmakers) >= 2
             THEN calculate_arbitrage_opportunity(outcome_odds, event, market_key,
                                                  min_margin)
             ELSE <<>>

\* find_arbitrage(events, market_key, min_margin, allowed_books), called at time t
RECURSIVE find_arbitrage(_, _, _, _, _)
find_arbitrage(events, market_key, min_margin, allowed_books, t) ==
    IF events = <<>> THEN <<>>
    ELSE ArbitrageOfEvent(Head(events), market_key, min_margin, allowed_books, t)
             \o find_arbitrage(Tail(events), market_key, min_margin, allowed_books, t)

\* The inputs.  Three bookmakers appear in this order, the first two allowed
Titles == <<"A", "B", "X">>
AllowedBooks == {"A", "B"}

Quote(name, price) == [name |-> name, price |-> price]

\* What a bookmaker can list for the head-to-head market of the event; with sheet
\* 0 it is not in the event's list
ArbSheets ==
    <<<<>>,
      <<Quote("Lions", 210), Quote("Tigers", 180)>>,
      <<Quote("Lions", 195), Quote("Tigers", 205)>>,
      <<Quote("Lions", 210), Quote("Tigers", 205)>>,
      <<Quote("Lions", 190), Quote("Tigers", 190)>>,
      <<Quote("Lions", 210), Quote("Tigers", 205), Quote("Draw", 900)>>,
      <<Quote("Lions", 101), Quote("Tigers", 5001)>>,
      <<Quote("LIONS", 250)>>>>

\* The bookmakers list of the choice f: title index -> sheet number
RECURSIVE BookmakersOf(_, _, _)
BookmakersOf(f, sheets, i) ==
    IF i > Len(Titles) THEN <<>>
    ELSE (IF f[i] = 0 THEN <<>>
          ELSE <<[title |-> Titles[i],
                  markets |-> <<[key |-> "h2h", outcomes |-> sheets[f[i]]]>>]>>)
         \o BookmakersOf(f, sheets, i + 1)

\* Timestamps an event can carry, as seconds from the time of the call; a text
\* that is no ISO timestamp; and none at all
IsoAfter(seconds) == [iso |-> TRUE, time |-> StartTime + seconds]
CommenceOffsets == {WindowMinSeconds - 1, WindowMinSeconds, SecondsPerDay,
                    WindowMaxSeconds, WindowMaxSeconds + 1}

ArbEvents ==
    {[id |-> "E1", commence_time |-> IsoAfter(SecondsPerDay),
      bookmakers |-> BookmakersOf(f, ArbSheets, 1)] :
        f \in [1..Len(Titles) -> 0..Len(ArbSheets)]}

\* min_margin, in tenths of a percent
MinMargins == {20, 50}

InitArb ==
    /\ active_bets = <<>>
    /\ InitProgram
    /\ calc \in {[op |-> "find_arbitrage", events |-> <<event>>, min_margin |-> m,
                   done |-> FALSE] : event \in ArbEvents, m \in MinMargins}

\* What a call leaves alone
CalcFrame ==
    UNCHANGED <<guild_bankrolls, active_bets, now, ticks, commands, pc, current_time,
                sorted_bets, completed_bets, results_summary, bet_log, ev_sent_ids,
                sent_alerts, scan_vars, file_vars, cache_vars, last_op>>

FindArbitrage ==
    /\ calc.op = "find_arbitrage" /\ ~calc.done
    /\ calc' = [op |-> "find_arbitrage", events |-> calc.events,
                min_margin |-> calc.min_margin, done |-> TRUE,
                result |-> find_arbitrage(calc.events, "h2h", calc.min_margin,
                                          AllowedBooks, now)]
    /\ CalcFrame

NextArb == FindArbitrage

SpecArb == InitArb /\ [][NextArb]_vars

\* find_ev_opportunities.  The name an outcome is filed under: the label as the
\* bookmaker writes it (str.strip leaves the labels above as they are), with the
\* point for spreads and totals
EvName(market_key, outcome) ==
    IF market_key = "spreads" /\ "point" \in DOMAIN outcome
    THEN <<outcome.name, "(", outcome.point, ")">>
    ELSE IF market_key = "totals" /\ "point" \in DOMAIN outcome
    THEN <<outcome.name, outcome.point, "pts">>
    ELSE <<outcome.name>>

\* The quotes of a set in the order the loops meet them
RECURSIVE InLoopOrder(_)
InLoopOrder(quotes) ==
    IF quotes = {} THEN <<>>
    ELSE LET first == CHOOSE q \in quotes : \A r \in quotes :
                          \/ q.index < r.index
                          \/ q.index = r.index /\ q.market < r.market
                          \/ q.index = r.index /\ q.market = r.market /\ q.pos <= r.pos
         IN  <<first>> \o InLoopOrder(quotes \ {first})

\* outcome_odds[name]: the (price, bookmaker) pairs appended for the name, in order
RECURSIVE OffersIn(_, _, _)
OffersIn(ordered, market_key, name) ==
    IF ordered = <<>> THEN <<>>
    ELSE (IF EvName(market_key, Head(ordered).outcome) = name
          THEN <<[price |-> Head(ordered).outcome.price, bookmaker |-> Head(ordered).title]>>
          ELSE <<>>) \o OffersIn(Tail(ordered), market_key, name)

\* The keys of outcome_odds in the order of their insertion
RECURSIVE NamesIn(_, _, _)
NamesIn(ordered, market_key, seen) ==
    IF ordered = <<>> THEN <<>>
    ELSE LET name == EvName(market_key, Head(ordered).outcome)
         IN  IF name \in seen THEN NamesIn(Tail(ordered), market_key, seen)
             ELSE <<name>> \o NamesIn(Tail(ordered), market_key, seen \cup {name})

\* list.sort() of implied probabilities: insertion into an ascending list
RECURSIVE InsertProb(_, _)
InsertProb(sorted, x) ==
    IF sorted = <<>> THEN <<x>>
    ELSE IF FracLess(x, Head(sorted)) THEN <<x>> \o sorted
    ELSE <<Head(sorted)>> \o InsertProb(Tail(sorted), x)

RECURSIVE SortProbs(_)
SortProbs(probs) ==
    IF probs = <<>> THEN <<>> ELSE InsertProb(SortProbs(Tail(probs)), Head(probs))

\* max(1, len(implied_probs) // 10)
TrimCount(n) == Max(1, n \div 10)

\* Variant: nothing is trimmed
TrimmedProbs_All(offers) ==
    [i \in DOMAIN offers |-> Implied(offers[i].price)]

\* The implied probabilities the average is taken of: all of them for two offers,
\* implied_probs[trim_count:-trim_count] of the sorted list for three or more
TrimmedProbs(offers) ==
    LET implied_probs == [i \in DOMAIN offers |-> Implied(offers[i].price)]
        n == Len(implied_probs)
    IN  IF n >= 3
        THEN SubSeq(SortProbs(implied_probs), TrimCount(n) + 1, n - TrimCount(n))
        ELSE implied_probs

RECURSIVE SumProbs(_)
SumProbs(probs) == IF probs = <<>> THEN <<0, 1>> ELSE FracAdd(Head(probs), SumProbs(Tail(probs)))

\* sum(implied_probs) / len(implied_probs), for a non-empty list
AvgImpliedProb(probs) == Frac(SumProbs(probs)[1], SumProbs(probs)[2] * Len(probs))

\* fair_odds = 1 / avg_implied_prob, as a fraction of hundredths
FairOdds(offers) ==
    Frac(100 * AvgImpliedProb(TrimmedProbs(offers))[2], AvgImpliedProb(TrimmedProbs(offers))[1])

\* Variant: the offer with the lowest price is taken for the best
BestOffer_Lowest(offers) ==
    offers[Least({i \in DOMAIN offers : \A j \in DOMAIN offers : offers[i].price <= offers[j].price})]

\* max(offers, key=lambda item: item[0]): the first offer with the highest price
BestOffer(offers) ==
    offers[Least({i \in DOMAIN offers : \A j \in DOMAIN offers : offers[i].price >= offers[j].price})]

\* calculate_ev(odds_offered, odds_fair) == ((odds_offered / odds_fair) - 1) * 100
calculate_ev(odds_offered, odds_fair) ==
    Frac(100 * (odds_offered * odds_fair[2] - odds_fair[1]), odds_fair[1])

\* The EV of an outcome with these offers, in percent
EvOfOffers(offers) == calculate_ev(BestOffer(offers).price, FairOdds(offers))

\* round(x): the nearest integer, a tie going to the even one
Round(x) ==
    LET q == x[1] \div x[2]
        r == x[1] - q * x[2]
    IN  IF 2 * r < x[2] THEN q
        ELSE IF 2 * r > x[2] THEN q + 1
        ELSE IF q % 2 = 0 THEN q ELSE q + 1

\* The second loop of find_ev_opportunities for the names from position i on; the
\* minimum EV is in tenths of a percent, the ev of the record in hundredths of a
\* percent.  (The record's stake suggestion is left out.)
RECURSIVE EvOfNames(_, _, _, _, _)
EvOfNames(names, ordered, event, market_key, min_ev) ==
    IF names = <<>> THEN <<>>
    ELSE LET offers == OffersIn(ordered, market_key, Head(names))
             rest == EvOfNames(Tail(names), ordered, event, market_key, min_ev)
         IN  IF Len(offers) < 2 THEN rest
             ELSE IF FracLeq(<<min_ev, 10>>, EvOfOffers(offers))
             THEN <<[event |-> event,
                     market_key |-> market_key,
                     outcome |-> Head(names),
                     bookmaker |-> BestOffer(offers).bookmaker,
                     offered_odds |-> BestOffer(offers).price,
                     fair_odds |-> Round(FairOdds(offers)),
                     ev |-> Round(<<100 * EvOfOffers(offers)[1], EvOfOffers(offers)[2]>>),
                     num_bookmakers |-> Len(offers)]>> \o rest
             ELSE rest

\* The body of find_ev_opportunities' loop for one event: whatever the parsing of
\* the time raises, the event is skipped
EvOfEvent(event, market_key, min_ev, allowed_books, t) ==
    IF ParseCommenceTime(event).raised # "" THEN <<>>
    ELSE IF ~InWindow(ParseCommenceTime(event).time, t) THEN <<>>
    ELSE IF Get(event, "bookmakers", <<>>) = <<>> THEN <<>>
    ELSE LET ordered == InLoopOrder(QuotesOf(event, market_key, allowed_books))
         IN  EvOfNames(NamesIn(ordered, market_key, {}), ordered, event, market_key, min_ev)

\* opportunities.sort(key=ev, reverse=True): stable, highest EV first
RECURSIVE InsertByEv(_, _)
InsertByEv(sorted, x) ==
    IF sorted = <<>> THEN <<x>>
    ELSE IF x.ev >= Head(sorted).ev THEN <<x>> \o sorted
    ELSE <<Head(sorted)>> \o InsertByEv(Tail(sorted), x)

RECURSIVE SortByEv(_)
SortByEv(opportunities) ==
    IF opportunities = <<>> THEN <<>>
    ELSE InsertByEv(SortByEv(Tail(opportunities)), Head(opportunities))

RECURSIVE EvOfEvents(_, _, _, _, _)
EvOfEvents(events, market_key, min_ev, allowed_books, t) ==
    IF events = <<>> THEN <<>>
    ELSE EvOfEvent(Head(events), market_key, min_ev, allowed_books, t)
             \o EvOfEvents(Tail(events), market_key, min_ev, allowed_books, t)

\* find_ev_opportunities(events, market_key, min_ev, allowed_books), called at time t
find_ev_opportunities(events, market_key, min_ev, allowed_books, t) ==
    SortByEv(EvOfEvents(events, market_key, min_ev, allowed_books, t))

FindEvOpportunities ==
    /\ calc.op = "find_ev_opportunities" /\ ~calc.done
    /\ calc' = [op |-> "find_ev_opportunities", events |-> calc.events,
                allowed_books |-> calc.allowed_books, min_ev |-> calc.min_ev,
                done |-> TRUE,
                result |-> find_ev_opportunities(calc.events, "h2h", calc.min_ev,
                                                 calc.allowed_books, now)]
    /\ CalcFrame

\* The time window of both detectors: lists of two events, each with an arbitrage
\* and a +EV outcome in its quotes, that carry any of the timestamps
TimeStamps == {IsoAfter(seconds) : seconds \in CommenceOffsets} \cup {[iso |-> FALSE, time |-> 0]}

WindowEvent(id, stamp) ==
    [id |-> id, commence_time |-> stamp,
     bookmakers |-> BookmakersOf(<<2, 3, 0>>, ArbSheets, 1)]

\* The event without the commence_time key
WithoutTime(event) == [k \in DOMAIN event \ {"commence_time"} |-> event[k]]

WindowEvents(id) ==
    {WindowEvent(id, stamp) : stamp \in TimeStamps}
        \cup {WithoutTime(WindowEvent(id, IsoAfter(SecondsPerDay)))}

InitWindow ==
    /\ active_bets = <<>>
    /\ InitProgram
    /\ \E e1 \in WindowEvents("E1"), e2 \in WindowEvents("E2") :
          \/ calc = [op |-> "find_arbitrage", events |-> <<e1, e2>>, min_margin |-> 20,
                     done |-> FALSE]
          \/ calc = [op |-> "find_ev_opportunities", events |-> <<e1, e2>>,
                     allowed_books |-> AllowedBooks, min_ev |-> 20, done |-> FALSE]

NextWindow ==
    \/ FindArbitrage
    \/ FindEvOpportunities

SpecWindow == InitWindow /\ [][NextWindow]_vars

\* EV detection on one event.  What a bookmaker can list for the head-to-head
\* market: one price for the home team, or two
EvSheets ==
    <<<<>>,
      <<Quote("Lions", 200)>>,
      <<Quote("Lions", 250)>>,
      <<Quote("Lions", 400)>>,
      <<Quote("Lions", 500)>>,
      <<Quote("Lions", 250), Quote("Lions", 250)>>,
      <<Quote("Lions", 200), Quote("Lions", 500)>>,
      <<Quote("Lions", 190)>>,
      <<Quote("Lions", 195)>>,
      <<Quote("Lions", 205)>>>>

EvEvents ==
    {[id |-> "E1", commence_time |-> IsoAfter(SecondsPerDay),
      bookmakers |-> BookmakersOf(f, EvSheets, 1)] :
        f \in [1..Len(Titles) -> 0..Len(EvSheets)]}

\* Events with many bookmakers that each quote the home team once
BookNames ==
    <<"B01", "B02", "B03", "B04", "B05", "B06", "B07", "B08", "B09", "B10",
      "B11", "B12", "B13", "B14", "B15", "B16", "B17", "B18", "B19", "B20",
      "B21", "B22", "B23", "B24", "B25", "B26", "B27", "B28", "B29", "B30">>
CyclePrices == <<200, 250, 400, 500>>
ManyBooksEvent(n) ==
    [id |-> "E1", commence_time |-> IsoAfter(SecondsPerDay),
     bookmakers |-> [i \in 1..n |->
         [title |-> BookNames[i],
          markets |-> <<[key |-> "h2h",
                         outcomes |-> <<Quote("Lions", CyclePrices[(i % 4) + 1])>>]>>]]]

\* Events whose bookmakers label the same selection differently
LabelSheets ==
    <<<<Quote("Lions", 200)>>,
      <<Quote("LIONS", 500)>>,
      <<Quote("Draw", 200)>>,
      <<Quote("Tie", 500)>>,
      <<Quote("Lions", 200), Quote("Draw", 500)>>>>
LabelEvents ==
    {[id |-> "E1", commence_time |-> IsoAfter(SecondsPerDay),
      bookmakers |-> BookmakersOf(f, LabelSheets, 1)] :
        f \in [1..Len(Titles) -> 0..Len(LabelSheets)]}

\* min_ev, in tenths of a percent
MinEvs == {20, 50}

InitEvDetect ==
    /\ active_bets = <<>>
    /\ InitProgram
    /\ \/ \E event \in EvEvents, books \in {AllowedBooks, Range(Titles)}, m \in MinEvs :
             calc = [op |-> "find_ev_opportunities", events |-> <<event>>,
                     allowed_books |-> books, min_ev |-> m, done |-> FALSE]
       \/ \E n \in 3..MaxQuotes :
             calc = [op |-> "find_ev_opportunities", events |-> <<ManyBooksEvent(n)>>,
                     allowed_books |-> Range(BookNames), min_ev |-> 20, done |-> FALSE]
       \/ \E event \in LabelEvents :
             calc = [op |-> "find_ev_opportunities", events |-> <<event>>,
                     allowed_books |-> Range(Titles), min_ev |-> 50, done |-> FALSE]

NextEvDetect == FindEvOpportunities

SpecEvDetect == InitEvDetect /\ [][NextEvDetect]_vars

\* Arbitrage stake sizing.  Totals, stakes, returns and profits are in units; the
\* exact values are reduced fractions, the rounded ones are whole hundredths

FracMul(x, y) == Frac(x[1] * y[1], x[2] * y[2])
FracSub(x, y) == FracAdd(x, <<0 - y[1], y[2]>>)

RECURSIVE SumFracs(_)
SumFracs(s) == IF s = <<>> THEN <<0, 1>> ELSE FracAdd(Head(s), SumFracs(Tail(s)))

\* max(x, s[1], s[2], ...), taken one element at a time
RECURSIVE MaxFrac(_, _)
MaxFrac(x, s) ==
    IF s = <<>> THEN x
    ELSE MaxFrac(IF FracLess(x, Head(s)) THEN Head(s) ELSE x, Tail(s))

\* sum(1 / odds for odds in ...), over a list of prices
RECURSIVE InvSumOf(_)
InvSumOf(odds) ==
    IF odds = <<>> THEN <<0, 1>> ELSE FracAdd(Implied(Head(odds)), InvSumOf(Tail(odds)))

\* Variant: the stake is total / odds, not divided by inv_sum
StakeOf_Unscaled(total, odds, inv_sum) == Frac(100 * total, odds)

\* total / (odds * inv_sum)
StakeOf(total, odds, inv_sum) == Frac(100 * total * inv_sum[2], odds * inv_sum[1])

\* total_suggested_stake = 100.0
TotalSuggestedStake == 100

\* The stakes part of create_enhanced_arbitrage_embed(event, best_odds, margin,
\* market_key); best_odds is given as the list of its prices in dict order
create_enhanced_arbitrage_embed(best_odds) ==
    LET inv_sum == InvSumOf(best_odds)
        stakes == [i \in DOMAIN best_odds |-> StakeOf(TotalSuggestedStake, best_odds[i], inv_sum)]
        potential_returns == [i \in DOMAIN best_odds |-> FracMul(stakes[i], <<best_odds[i], 100>>)]
    IN  [stakes |-> stakes,
         potential_returns |-> potential_returns,
         profit_amount |-> MaxFrac(<<0, 1>>,
                                   [i \in DOMAIN best_odds |->
                                       FracSub(potential_returns[i], <<TotalSuggestedStake, 1>>)]),
         total_investment |-> SumFracs(stakes)]

\* float(text): a text that is a number gives its value (a total in units, a
\* price in hundredths), any other text raises ValueError
ParseFloat(text) ==
    IF text.kind = "number" THEN [raised |-> FALSE, value |-> text.value]
    ELSE [raised |-> TRUE, value |-> 0]

\* What on_submit answers when it stops before the stakes
NoStakes(message) ==
    [message |-> message, stakes |-> <<>>, profits |-> <<>>, guaranteed_profit |-> 0,
     profit_margin |-> <<0, 1>>]

\* ArbCalculatorModal.on_submit: the message sent, and for the result embed the
\* rounded stakes and profits
ArbCalculatorModal_on_submit(total_amount, odds_inputs) ==
    LET total == ParseFloat(total_amount)
        bad == {i \in DOMAIN odds_inputs :
                    ParseFloat(odds_inputs[i]).raised \/ ParseFloat(odds_inputs[i]).value <= 100}
    IN  IF total.raised THEN NoStakes("Please enter valid numbers only.")
        ELSE IF total.value <= 0 THEN NoStakes("Total stake must be positive.")
        ELSE IF bad # {}
        THEN IF ParseFloat(odds_inputs[Least(bad)]).raised
             THEN NoStakes("Please enter valid decimal odds")
             ELSE NoStakes("All odds must be greater than 1.0")
        ELSE LET updated_odds == [i \in DOMAIN odds_inputs |-> ParseFloat(odds_inputs[i]).value]
                 inv_sum == InvSumOf(updated_odds)
                 stakes == [i \in DOMAIN updated_odds |->
                               Round(FracMul(<<100, 1>>,
                                             StakeOf(total.value, updated_odds[i], inv_sum)))]
                 profits == [i \in DOMAIN updated_odds |->
                               Round(Frac(stakes[i] * updated_odds[i] - 10000 * total.value, 100))]
             IN  IF FracLeq(<<1, 1>>, inv_sum)
                 THEN NoStakes("These odds do not guarantee profit!")
                 ELSE [message |-> "Arbitrage Calculator Results",
                       stakes |-> stakes,
                       profits |-> profits,
                       guaranteed_profit |-> Least({profits[i] : i \in DOMAIN profits}),
                       profit_margin |-> MarginOf(inv_sum)]

\* The prices, the number of legs and the texts typed into the calculator
StakePrices == {200, 205, 210, 250, 300, 400, 500}
LegCounts == {2, 3}
PriceLists == UNION {[1..n -> StakePrices] : n \in LegCounts}
OddsTexts ==
    {[kind |-> "number", value |-> p] : p \in StakePrices \cup {100}}
        \cup {[kind |-> "text", value |-> 0]}
TotalTexts ==
    {[kind |-> "number", value |-> t] : t \in {0, 37, 100}} \cup {[kind |-> "text", value |-> 0]}

InitStakes ==
    /\ active_bets = <<>>
    /\ InitProgram
    /\ calc \in {[op |-> "create_enhanced_arbitrage_embed", best_odds |-> o, done |-> FALSE] :
                      o \in PriceLists}
               \cup {[op |-> "ArbCalculatorModal.on_submit", total_amount |-> t,
                      odds_inputs |-> o, done |-> FALSE] :
                      t \in TotalTexts, o \in UNION {[1..n -> OddsTexts] : n \in LegCounts}}

CreateEnhancedArbitrageEmbed ==
    /\ calc.op = "create_enhanced_arbitrage_embed" /\ ~calc.done
    /\ calc' = [op |-> calc.op, best_odds |-> calc.best_odds, done |-> TRUE,
                result |-> create_enhanced_arbitrage_embed(calc.best_odds)]
    /\ CalcFrame

ArbCalculatorSubmit ==
    /\ calc.op = "ArbCalculatorModal.on_submit" /\ ~calc.done
    /\ calc' = [op |-> calc.op, total_amount |-> calc.total_amount,
                odds_inputs |-> calc.odds_inputs, done |-> TRUE,
                result |-> ArbCalculatorModal_on_submit(calc.total_amount, calc.odds_inputs)]
    /\ CalcFrame

NextStakes == CreateEnhancedArbitrageEmbed \/ ArbCalculatorSubmit

SpecStakes == InitStakes /\ [][NextStakes]_vars

----------------------------------------------------------------------------
(* The odds API and its caches *)

\* The event lists and the sports lists the provider answers with
OddsData == {<<>>, <<[id |-> "E1"]>>, <<[id |-> "E1"], [id |-> "E2"]>>}
SportEpl == [key |-> <<"soccer", "epl">>, active |-> TRUE]
SportWinner == [key |-> <<"soccer", "winner">>, active |-> TRUE]
SportAtp == [key |-> <<"tennis", "atp">>, active |-> FALSE]
SportsData == {<<SportEpl>>, <<SportWinner>>, <<SportEpl, SportWinner, SportAtp>>}
EXCLUDED_SPORT_KEYWORDS ==
    {"winner", "futures", "election", "olympics", "medal", "outright", "mvp", "prop",
     "draft", "special"}

\* What a request ends with: an exception of the HTTP client, or a status and a
\* body that is a JSON array, another JSON value, or not JSON at all
Answer(error, status, json, data) ==
    [error |-> error, status |-> status, json |-> json, data |-> data]
AnswersWith(lists) ==
    {Answer("", 200, "array", d) : d \in lists}
        \cup {Answer("", 200, j, <<>>) : j \in {"object", "invalid"}}
        \cup {Answer("", st, "object", <<>>) : st \in {401, 422, 429, 500}}
        \cup {Answer(e, 0, "none", <<>>) : e \in {"TimeoutError", "ClientError"}}
\* How the log of the upstream names an answer
AnswerName(a) ==
    IF a.error # "" THEN a.error
    ELSE IF a.status = 200 THEN a.json
    ELSE IF a.status = 401 THEN "401"
    ELSE IF a.status = 422 THEN "422"
    ELSE IF a.status = 429 THEN "429"
    ELSE "500"

\* resp.status == 200, await resp.json() returns, isinstance(data, list)
IsArray200(a) == a.error = "" /\ a.status = 200 /\ a.json = "array"

\* Variant: an entry is still used when its age equals CACHE_SECONDS
Fresh_Inclusive(timestamp, t) == t - timestamp <= CACHE_SECONDS

\* (now - entry["timestamp"]).total_seconds() < CACHE_SECONDS
Fresh(timestamp, t) == t - timestamp < CACHE_SECONDS

\* cache_key in odds_cache and the entry is fresh
OddsCacheHit(key, t) == key \in DOMAIN odds_cache /\ Fresh(odds_cache[key].timestamp, t)

\* sports_cache["data"] and the entry is fresh: None and the empty list are both false
SportsCacheHit(t) ==
    /\ sports_cache.data # <<>>
    /\ sports_cache.data[1] # <<>>
    /\ Fresh(sports_cache.timestamp, t)

\* The upstream received one more request
Requested(url) == [requests EXCEPT !.count[url] = @ + 1]
\* and answered the request of the call that started at time t
Answered(url, a, t) == [requests EXCEPT !.url = url, !.answer = AnswerName(a), !.time = t]

\* What a finished call reports: the URL, whether the cache answered, the requests
\* it sent, the answer to the first one, and the list returned
Returned(op, key, hit, sent, first, result) ==
    [op |-> op, key |-> key, hit |-> hit, sent |-> sent, first |-> first,
     result |-> result, raised |-> FALSE]

\* get_odds(sport_key, market) up to its first await: the cached events, or the
\* first request
GetOddsCall ==
    /\ fetch.pc = "idle" /\ fetch.calls < MaxCalls
    /\ \E key \in OddsKeys :
          IF OddsCacheHit(key, now)
          THEN /\ fetch' = IdleFetch(fetch.calls + 1)
               /\ last_op' = Returned("get_odds", key, TRUE, 0, "none", odds_cache[key].data)
               /\ UNCHANGED requests
          ELSE /\ fetch' = [pc |-> "odds_first", calls |-> fetch.calls + 1, key |-> key,
                            now |-> now, first |-> "none"]
               /\ requests' = Requested(key)
               /\ last_op' = [op |-> "get_odds_request", key |-> key]
    /\ UNCHANGED <<guild_bankrolls, active_bets, now, ticks, commands, pc, current_time,
                   sorted_bets, completed_bets, results_summary, bet_log, ev_sent_ids,
                   sent_alerts, scan_vars, file_vars, calc, odds_cache, sports_cache>>

\* Variant: a 500 is retried like a 429
RetriedStatus_AnyError(a) == a.error = "" /\ a.status \in {429, 500}

\* elif resp.status == 429
RetriedStatus(a) == a.error = "" /\ a.status = 429

\* get_odds from the answer to its first request: a 200 array is cached and
\* returned, a 422 is cached as empty, a 429 sleeps two seconds and sends the
\* second request, everything else returns the empty list
OddsFirstAnswer ==
    /\ fetch.pc = "odds_first"
    /\ \E a \in AnswersWith(OddsData) :
          /\ IF RetriedStatus(a)
             THEN /\ now' = now + 2
                  /\ fetch' = [fetch EXCEPT !.pc = "odds_retry", !.first = AnswerName(a)]
                  /\ requests' = Requested(fetch.key)
                  /\ last_op' = [op |-> "get_odds_retry", key |-> fetch.key]
                  /\ UNCHANGED odds_cache
             ELSE /\ odds_cache' =
                        IF IsArray200(a)
                        THEN Put(odds_cache, fetch.key, [data |-> a.data, timestamp |-> fetch.now])
                        ELSE IF a.error = "" /\ a.status = 422
                        THEN Put(odds_cache, fetch.key, [data |-> <<>>, timestamp |-> fetch.now])
                        ELSE odds_cache
                  /\ fetch' = IdleFetch(fetch.calls)
                  /\ requests' = Answered(fetch.key, a, fetch.now)
                  /\ last_op' = Returned("get_odds", fetch.key, FALSE, 1, AnswerName(a),
                                         IF IsArray200(a) THEN a.data ELSE <<>>)
                  /\ UNCHANGED now
    /\ UNCHANGED <<guild_bankrolls, active_bets, ticks, commands, pc, current_time,
                   sorted_bets, completed_bets, results_summary, bet_log, ev_sent_ids,
                   sent_alerts, scan_vars, file_vars, calc, sports_cache>>

\* get_odds from the answer to its second request
OddsRetryAnswer ==
    /\ fetch.pc = "odds_retry"
    /\ \E a \in AnswersWith(OddsData) :
          /\ odds_cache' =
                IF IsArray200(a)
                THEN Put(odds_cache, fetch.key, [data |-> a.data, timestamp |-> fetch.now])
                ELSE odds_cache
          /\ requests' = Answered(fetch.key, a, fetch.now)
          /\ last_op' = Returned("get_odds", fetch.key, FALSE, 2, fetch.first,
                                 IF IsArray200(a) THEN a.data ELSE <<>>)
    /\ fetch' = IdleFetch(fetch.calls)
    /\ UNCHANGED <<guild_bankrolls, active_bets, now, ticks, commands, pc, current_time,
                   sorted_bets, completed_bets, results_summary, bet_log, ev_sent_ids,
                   sent_alerts, scan_vars, file_vars, calc, sports_cache>>

\* sport.get('active', False) and no excluded keyword in sport['key'].lower()
RECURSIVE FilterSports(_)
FilterSports(data) ==
    IF data = <<>> THEN <<>>
    ELSE (IF Head(data).active
             /\ ~\E word \in EXCLUDED_SPORT_KEYWORDS : Contains(Head(data).key, word)
          THEN <<Head(data)>> ELSE <<>>) \o FilterSports(Tail(data))

\* get_sports() up to its await
GetSportsCall ==
    /\ fetch.pc = "idle" /\ fetch.calls < MaxCalls
    /\ IF SportsCacheHit(now)
       THEN /\ fetch' = IdleFetch(fetch.calls + 1)
            /\ last_op' = Returned("get_sports", SportsUrl, TRUE, 0, "none", sports_cache.data[1])
            /\ UNCHANGED requests
       ELSE /\ fetch' = [pc |-> "sports", calls |-> fetch.calls + 1, key |-> SportsUrl,
                         now |-> now, first |-> "none"]
            /\ requests' = Requested(SportsUrl)
            /\ last_op' = [op |-> "get_sports_request", key |-> SportsUrl]
    /\ UNCHANGED <<guild_bankrolls, active_bets, now, ticks, commands, pc, current_time,
                   sorted_bets, completed_bets, results_summary, bet_log, ev_sent_ids,
                   sent_alerts, scan_vars, file_vars, calc, odds_cache, sports_cache>>

\* get_sports() from the answer: a 200 array is filtered, cached and returned, a
\* 429 sleeps one second, everything but the array returns the empty list
SportsAnswer ==
    /\ fetch.pc = "sports"
    /\ \E a \in AnswersWith(SportsData) :
          /\ sports_cache' =
                IF IsArray200(a)
                THEN [data |-> <<FilterSports(a.data)>>, timestamp |-> fetch.now]
                ELSE sports_cache
          /\ now' = IF a.error = "" /\ a.status = 429 THEN now + 1 ELSE now
          /\ requests' = Answered(SportsUrl, a, fetch.now)
          /\ last_op' = Returned("get_sports", SportsUrl, FALSE, 1, AnswerName(a),
                                 IF IsArray200(a) THEN FilterSports(a.data) ELSE <<>>)
    /\ fetch' = IdleFetch(fetch.calls)
    /\ UNCHANGED <<guild_bankrolls, active_bets, ticks, commands, pc, current_time,
                   sorted_bets, completed_bets, results_summary, bet_log, ev_sent_ids,
                   sent_alerts, scan_vars, file_vars, calc, odds_cache>>

\* The clock moves on between calls and while a request is awaited
CacheTickSteps == {1, 14}
CacheTick ==
    /\ ticks < MaxTicks
    /\ \E d \in CacheTickSteps : now' = now + d
    /\ ticks' = ticks + 1
    /\ last_op' = [op |-> "tick"]
    /\ UNCHANGED <<guild_bankrolls, active_bets, commands, pc, current_time, sorted_bets,
                   completed_bets, results_summary, bet_log, ev_vars, file_vars>>

NextCache ==
    \/ GetOddsCall \/ OddsFirstAnswer \/ OddsRetryAnswer
    \/ GetSportsCall \/ SportsAnswer
    \/ CacheTick

SpecCache == InitNoBets /\ [][NextCache]_vars

----------------------------------------------------------------------------
(* Head-to-head results for any pair of team names *)

\* Fixtures, lower-cased: two teams with nothing in common, and two of one city
Fixtures ==
    {[home_team |-> <<"lions">>, away_team |-> <<"tigers">>],
     [home_team |-> <<"manchester", "united">>, away_team |-> <<"manchester", "city">>]}
\* The final scores, and what the bet names: a side, or one of the words for a draw
FinalScores == 0..2
Selections == {"home", "away", "draw", "tie", "deadlock"}
SelectionText(fixture, selection) ==
    IF selection = "home" THEN fixture.home_team
    ELSE IF selection = "away" THEN fixture.away_team
    ELSE <<selection>>
\* The completed result of a fixture, the home team's score listed first or last
CompletedResult(fixture, home_score, away_score, home_first) ==
    [found |-> TRUE, completed |-> TRUE, home_team |-> fixture.home_team,
     away_team |-> fixture.away_team, home_team_none |-> FALSE,
     scores |-> IF home_first
                THEN <<Score(fixture.home_team, home_score), Score(fixture.away_team, away_score)>>
                ELSE <<Score(fixture.away_team, away_score), Score(fixture.home_team, home_score)>>]

InitH2h ==
    /\ active_bets = <<>>
    /\ InitProgram
    /\ \E op \in {"determine_h2h_outcome", "determine_bet_outcome_enhanced"},
           fixture \in Fixtures, selection \in Selections,
           home_score \in FinalScores, away_score \in FinalScores, home_first \in BOOLEAN :
          calc = [op |-> op, fixture |-> fixture, selection |-> selection,
                  home_score |-> home_score, away_score |-> away_score,
                  home_first |-> home_first, done |-> FALSE]

\* determine_h2h_outcome on the scores of the fixture
DetermineH2hOutcome ==
    /\ calc.op = "determine_h2h_outcome" /\ ~calc.done
    /\ calc' = [calc EXCEPT !.done = TRUE] @@
                [result |-> determine_h2h_outcome(SelectionText(calc.fixture, calc.selection),
                                calc.fixture.home_team, calc.fixture.away_team,
                                calc.home_score, calc.away_score)]
    /\ CalcFrame

\* determine_bet_outcome_enhanced on the completed result of the fixture
DetermineBetOutcomeEnhanced ==
    /\ calc.op = "determine_bet_outcome_enhanced" /\ ~calc.done
    /\ calc' = [calc EXCEPT !.done = TRUE] @@
                [result |-> determine_bet_outcome_enhanced(
                                CompletedResult(calc.fixture, calc.home_score, calc.away_score,
                                                calc.home_first),
                                [market_key |-> "h2h", event_id |-> "E1",
                                 outcome |-> SelectionText(calc.fixture, calc.selection)])]
    /\ CalcFrame

NextH2h == DetermineH2hOutcome \/ DetermineBetOutcomeEnhanced

SpecH2h == InitH2h /\ [][NextH2h]_vars

----------------------------------------------------------------------------
(* Stake sizing of EV bets.  ev_percent is given in hundredths of a percent, odds
   in hundredths, the bankroll in thousandths of a dollar; the arithmetic is exact *)

\* x / y for y > 0
FracDiv(x, y) == Frac(x[1] * y[2], x[2] * y[1])
FracMax(x, y) == IF FracLess(x, y) THEN y ELSE x
FracMin(x, y) == IF FracLess(y, x) THEN y ELSE x

\* Variant: the true odds are taken to be shorter than the offered ones by the edge
EstimatedTrueOdds_Shorter(ev_percent, odds) ==
    FracDiv(<<odds, 100>>, FracAdd(<<1, 1>>, Frac(ev_percent, 10000)))

\* estimated_true_odds = odds * (1 + ev_decimal)
EstimatedTrueOdds(ev_percent, odds) ==
    FracMul(<<odds, 100>>, FracAdd(<<1, 1>>, Frac(ev_percent, 10000)))

\* kelly_fraction before max(kelly_fraction, 0), for ev_percent > 0 and odds > 1
KellyOfSuggestion(ev_percent, odds) ==
    LET true_prob == FracDiv(<<1, 1>>, EstimatedTrueOdds(ev_percent, odds))
        b == Frac(odds - 100, 100)
    IN  FracDiv(FracSub(FracMul(b, true_prob), FracSub(<<1, 1>>, true_prob)), b)

\* confidence_multiplier
ConfidenceMultiplier(ev_percent) ==
    IF ev_percent >= 2000 THEN <<1, 2>>
    ELSE IF ev_percent >= 1500 THEN <<2, 5>>
    ELSE IF ev_percent >= 1000 THEN <<3, 10>>
    ELSE IF ev_percent >= 700 THEN <<1, 4>>
    ELSE IF ev_percent >= 500 THEN <<1, 5>>
    ELSE <<3, 20>>

\* The factor of the odds-based adjustment
OddsAdjustment(odds) ==
    IF odds >= 400 THEN <<7, 10>>
    ELSE IF odds >= 300 THEN <<17, 20>>
    ELSE IF odds >= 250 THEN <<19, 20>>
    ELSE IF odds <= 150 THEN <<11, 10>>
    ELSE <<1, 1>>

\* min_stake, max_stake of the EV tier
StakeBand(ev_percent) ==
    IF ev_percent >= 1500 THEN [min_stake |-> <<2, 1>>, max_stake |-> <<12, 1>>]
    ELSE IF ev_percent >= 1000 THEN [min_stake |-> <<3, 2>>, max_stake |-> <<8, 1>>]
    ELSE IF ev_percent >= 700 THEN [min_stake |-> <<1, 1>>, max_stake |-> <<6, 1>>]
    ELSE IF ev_percent >= 500 THEN [min_stake |-> <<4, 5>>, max_stake |-> <<4, 1>>]
    ELSE [min_stake |-> <<1, 2>>, max_stake |-> <<5, 2>>]

\* calculate_stake_suggestion(ev_percent, odds): the stake in tenths of a unit
calculate_stake_suggestion(ev_percent, odds) ==
    IF ev_percent <= 0 \/ odds <= 100 THEN 5
    ELSE LET kelly_fraction == FracMax(KellyOfSuggestion(ev_percent, odds), <<0, 1>>)
             base == FracMul(FracMul(kelly_fraction, ConfidenceMultiplier(ev_percent)),
                             <<100, 1>>)
             adjusted == FracMul(base, OddsAdjustment(odds))
             band == StakeBand(ev_percent)
             stake == FracMin(FracMax(adjusted, band.min_stake), band.max_stake)
         IN  Round(FracMul(stake, <<10, 1>>))

\* Variant: the Kelly term is one half
KellyOfDollars_Half(odds) == <<1, 2>>

\* win_prob = 1 / odds; kelly_fraction = ((odds * win_prob) - 1) / (odds - 1)
KellyOfDollars(odds) ==
    LET win_prob == Frac(100, odds)
    IN  FracDiv(FracSub(FracMul(<<odds, 100>>, win_prob), <<1, 1>>), Frac(odds - 100, 100))

\* calculate_stake_dollars(ev_percent, odds, current_bankroll): the stake in cents
calculate_stake_dollars(ev_percent, odds, current_bankroll) ==
    IF ev_percent <= 0 \/ odds <= 100 THEN 0
    ELSE LET conservative_kelly ==
                 FracMul(FracMul(KellyOfDollars(odds), Frac(ev_percent, 10000)), <<1, 4>>)
             capped == FracMin(FracMul(conservative_kelly, <<current_bankroll, 1>>),
                               Frac(current_bankroll * 2, 100))
             stake_dollars == IF ev_percent >= 500
                              THEN FracMax(capped, Frac(current_bankroll * 5, 1000))
                              ELSE capped
         IN  Round(FracDiv(stake_dollars, <<10, 1>>))

\* EV percentages around the tiers, odds around the adjustments, bankrolls
EvPercents == {0 - 100, 0, 1, 499, 500, 699, 700, 999, 1000, 1499, 1500, 1999, 2000, 5000,
               100000}
SizerOdds == {100, 101, 150, 151, 249, 250, 300, 400, 5000}
Bankrolls == {Dollars(100), Dollars(1000), Dollars(1000) + 500, Dollars(250) + 300}

InitSizers ==
    /\ active_bets = <<>>
    /\ InitProgram
    /\ \E ev \in EvPercents, odds \in SizerOdds :
          \/ calc = [op |-> "calculate_stake_suggestion", ev_percent |-> ev, odds |-> odds,
                     current_bankroll |-> 0, done |-> FALSE]
          \/ \E b \in Bankrolls :
                calc = [op |-> "calculate_stake_dollars", ev_percent |-> ev, odds |-> odds,
                        current_bankroll |-> b, done |-> FALSE]

CalculateStakeSuggestion ==
    /\ calc.op = "calculate_stake_suggestion" /\ ~calc.done
    /\ calc' = [calc EXCEPT !.done = TRUE] @@
                [result |-> calculate_stake_suggestion(calc.ev_percent, calc.odds)]
    /\ CalcFrame

CalculateStakeDollars ==
    /\ calc.op = "calculate_stake_dollars" /\ ~calc.done
    /\ calc' = [calc EXCEPT !.done = TRUE] @@
                [result |-> calculate_stake_dollars(calc.ev_percent, calc.odds,
                                                    calc.current_bankroll)]
    /\ CalcFrame

NextSizers == CalculateStakeSuggestion \/ CalculateStakeDollars

SpecSizers == InitSizers /\ [][NextSizers]_vars




----------------------------------------------------------------------------
(* Properties *)

\* stake * (odds - 1) of a bet, odds in hundredths
ProfitOf(bet) == (bet.stake * (bet.odds - 100)) \div 100

\* What a resolution adds to the bankroll: the profit of a win, minus the stake of a loss
DeltaOf(bet, won) == IF won THEN ProfitOf(bet) ELSE 0 - bet.stake

\* The bankroll an operation on guild g finds: the stored one, or the default one
\* created on first reference
Before(g) == initialize_bankroll(guild_bankrolls, g, now)[g]

\* The kinds of settlement the log records for bet m, and how many of a kind
Kinds(m) == {bet_log[m][i].kind : i \in DOMAIN bet_log[m]}
Count(m, kinds) == Cardinality({i \in DOMAIN bet_log[m] : bet_log[m][i].kind \in kinds})
\* The bets of guild g the log records a settlement of that kind for
SettledOf(g, kind) ==
    {m \in MessageIds : \E i \in DOMAIN bet_log[m] :
                            bet_log[m][i] = [kind |-> kind, guild_id |-> g]}
\* A counter of guild g's bankroll (0 while the guild has no bankroll)
Counter(g, key) == IF g \in DOMAIN guild_bankrolls THEN Get(guild_bankrolls[g], key, 0) ELSE 0

\* The steps of the resolver's loop that visit a bet, and those that poll its result
VisitOps == {"too_new", "expired", "waiting", "resolved", "needs_review"}
PollOps == {"waiting", "resolved", "needs_review"}
\* The age of the bet the last step visited, at the clock the pass read
AgeOfVisited == current_time - active_bets[last_op.message_id].posted_time

\* C1: starting from a freshly created bankroll, after any sequence of won, lost and
\* void resolutions, every bankroll has current = initial + total_profit.
C1_CurrentIsInitialPlusProfit ==
    \A g \in DOMAIN guild_bankrolls :
        guild_bankrolls[g].current = guild_bankrolls[g].initial + guild_bankrolls[g].total_profit

\* C1: a bankroll on which a win and a loss were both resolved
C1_Witness ==
    \E g \in DOMAIN guild_bankrolls :
        /\ guild_bankrolls[g].won_bets >= 1
        /\ guild_bankrolls[g].lost_bets >= 1
        /\ guild_bankrolls[g].total_profit # 0

\* C2: as stated, current = initial + total_profit still holds right after
\* set_bankroll_amount, SetBankrollModal.on_submit and ResetBankrollButton.callback
\* were applied, also to a bankroll with resolved bets.  (Refuted: set_bankroll_amount
\* keeps total_profit.)
C2_BalancedAfterBankrollCommand ==
    last_op.op \in {"set_bankroll_amount", "set_bankroll_modal", "reset_bankroll"} =>
        LET b == guild_bankrolls[last_op.guild_id]
        IN  b.current = b.initial + b.total_profit

\* C3, as stated: resolving a bet changes current, daily_profit and total_profit by the
\* profit s*(o-1) of a win or by minus the stake of a loss, adds one to won_bets or
\* lost_bets, adds the stake to total_staked, takes one from pending_bets (not below
\* zero) and appends exactly one record to bets_today.  (Refuted on the first
\* resolution of a new day, where daily_profit and bets_today start over.)
C3_ResolutionDeltas ==
    [][last_op'.op = "resolved" =>
        LET bet == active_bets[last_op'.message_id]
            won == last_op'.won
            pre == Before(bet.guild_id)
            post == guild_bankrolls'[bet.guild_id]
        IN  /\ post.current = pre.current + DeltaOf(bet, won)
            /\ post.daily_profit = pre.daily_profit + DeltaOf(bet, won)
            /\ post.total_profit = pre.total_profit + DeltaOf(bet, won)
            /\ post.won_bets = pre.won_bets + (IF won THEN 1 ELSE 0)
            /\ post.lost_bets = pre.lost_bets + (IF won THEN 0 ELSE 1)
            /\ post.total_staked = pre.total_staked + bet.stake
            /\ post.pending_bets = Max(0, Get(pre, "pending_bets", 0) - 1)
            /\ Len(post.bets_today) = Len(pre.bets_today) + 1
            /\ SubSeq(post.bets_today, 1, Len(pre.bets_today)) = pre.bets_today
    ]_vars

\* C3, amended: resolving a bet changes current and total_profit by the profit s*(o-1)
\* of a win or by minus the stake of a loss, adds one to won_bets or lost_bets, adds
\* the stake to total_staked and takes one from pending_bets (not below zero);
\* daily_profit changes by the same amount and bets_today gains exactly one record,
\* both counted from zero and from the empty list when last_reset is not today's date.
C3_ResolutionDeltasAfterRollover ==
    [][last_op'.op = "resolved" =>
        LET bet == active_bets[last_op'.message_id]
            won == last_op'.won
            pre == Before(bet.guild_id)
            post == guild_bankrolls'[bet.guild_id]
            new_day == pre.last_reset # DateOf(now)
            daily_before == IF new_day THEN 0 ELSE pre.daily_profit
            bets_before == IF new_day THEN <<>> ELSE pre.bets_today
        IN  /\ post.current = pre.current + DeltaOf(bet, won)
            /\ post.daily_profit = daily_before + DeltaOf(bet, won)
            /\ post.total_profit = pre.total_profit + DeltaOf(bet, won)
            /\ post.won_bets = pre.won_bets + (IF won THEN 1 ELSE 0)
            /\ post.lost_bets = pre.lost_bets + (IF won THEN 0 ELSE 1)
            /\ post.total_staked = pre.total_staked + bet.stake
            /\ post.pending_bets = Max(0, Get(pre, "pending_bets", 0) - 1)
            /\ Len(post.bets_today) = Len(bets_before) + 1
            /\ SubSeq(post.bets_today, 1, Len(bets_before)) = bets_before
            /\ post.bets_today[Len(post.bets_today)].stake = bet.stake
            /\ post.bets_today[Len(post.bets_today)].odds = bet.odds
            /\ post.bets_today[Len(post.bets_today)].won = won
            /\ post.bets_today[Len(post.bets_today)].profit = DeltaOf(bet, won)
    ]_vars

\* C3: a bankroll of $1000 that counted two pending bets, right after the second
\* resolution of the day: $20 at 2.50 won ($1030), then $10 lost ($1020)
C3_Witness ==
    /\ last_op.op = "resolved" /\ ~last_op.won
    /\ LET b == guild_bankrolls[active_bets[last_op.message_id].guild_id]
       IN  /\ b.initial = Dollars(1000) /\ b.current = Dollars(1020)
           /\ b.total_profit = Dollars(20) /\ b.daily_profit = Dollars(20)
           /\ b.won_bets = 1 /\ b.lost_bets = 1
           /\ b.total_staked = Dollars(30)
           /\ b.pending_bets = 0
           /\ Len(b.bets_today) = 2
           /\ b.bets_today[1].profit = Dollars(30)
           /\ b.bets_today[2].profit = 0 - Dollars(10)
    /\ last_op.message_id \in Range(completed_bets)
    /\ commands = 1

\* C4: a bet the resolver visits when it is older than 14 days is voided, whatever
\* its result; no bet is voided twice, each voided bet adds exactly one to its guild's
\* void_bets, and when the pass is over the voided bet is no longer active.
C4_ExpiredVoidedOnce ==
    /\ \A m \in MessageIds : Count(m, {"void"}) <= 1
    /\ \A g \in Guilds : Counter(g, "void_bets") = Cardinality(SettledOf(g, "void"))
    /\ \A m \in MessageIds : (pc = "idle" /\ "void" \in Kinds(m)) => m \notin DOMAIN active_bets
    /\ (pc = "checking" /\ last_op.op \in VisitOps) =>
           (AgeOfVisited > 14 * SecondsPerDay <=> last_op.op = "expired")

\* C4: the pass that voided a bet is over and the bet is gone
C4_Witness ==
    /\ last_op.op = "check_finish"
    /\ \E m \in last_op.removed : /\ Kinds(m) = {"void"}
                                  /\ m \notin DOMAIN active_bets
                                  /\ \E g \in Guilds : Counter(g, "void_bets") >= 1

\* C5: a bet the resolver visits between two hours and 14 days after posting is
\* polled; if its result is completed and its outcome determined, the win or loss is
\* applied to the bankroll in that step and the bet is gone when the pass is over.  No
\* bet has a win or loss applied twice (the won and lost counters count the settled
\* bets), and a bet leaves the active set only after a won, lost, void or
\* needs-review settlement.
C5_ResolvedOnceAndRemoved ==
    [][/\ (/\ \A m \in MessageIds : Count(m, {"won", "lost"}) <= 1
           /\ \A g \in Guilds :
                 /\ Counter(g, "won_bets") = Cardinality(SettledOf(g, "won"))
                 /\ Counter(g, "lost_bets") = Cardinality(SettledOf(g, "lost"))
           /\ \A m \in MessageIds :
                 (pc = "idle" /\ Kinds(m) \cap {"won", "lost"} # {}) =>
                     m \notin DOMAIN active_bets
           /\ (pc = "checking" /\ last_op.op \in VisitOps) =>
                 /\ last_op.op \in PollOps <=>
                        (AgeOfVisited >= 2 * 3600 /\ AgeOfVisited <= 14 * SecondsPerDay)
                 /\ last_op.op \in PollOps =>
                        (last_op.op = "resolved" <=>
                            /\ last_op.result.found /\ last_op.result.completed
                            /\ determine_bet_outcome_enhanced(last_op.result,
                                   active_bets[last_op.message_id]) # PyNone))'
       /\ \A m \in DOMAIN active_bets \ DOMAIN active_bets' :
             Kinds(m) \cap {"won", "lost", "void", "review"} # {}
    ]_vars

\* C5: the pass that resolved a bet is over, the bet is gone and its guild's bankroll
\* counts it
C5_Witness ==
    /\ last_op.op = "check_finish"
    /\ \E m \in last_op.removed :
          /\ Kinds(m) \subseteq {"won", "lost"}
          /\ m \notin DOMAIN active_bets
          /\ \E g \in Guilds : Counter(g, "won_bets") + Counter(g, "lost_bets") >= 1

\* C6: as stated, when the EV flow has posted an alert, the bet is in the active set
\* under the id of the posted message and its guild's pending_bets has been raised.
\* (Refuted: the alert is posted and nothing is registered.)
C6_AlertRegistersBet ==
    last_op.op \in {"send_ev_alert", "send_ev_alert_with_data"} =>
        /\ last_op.first_message_id \in DOMAIN active_bets
        /\ Counter(last_op.guild_id, "pending_bets") >= 1

\* C7: when a won or lost result is applied to a bankroll whose last_reset is an
\* earlier date, daily_profit becomes this bet's profit or loss, bets_today holds
\* exactly this bet's record and last_reset becomes today; total_profit and current
\* are not reset: they change by this bet's profit or loss.
C7_RolloverOnResolution ==
    [][(/\ last_op'.op = "resolved"
        /\ active_bets[last_op'.message_id].guild_id \in DOMAIN guild_bankrolls
        /\ guild_bankrolls[active_bets[last_op'.message_id].guild_id].last_reset
               < now \div (24 * 3600)) =>
        LET bet == active_bets[last_op'.message_id]
            won == last_op'.won
            pre == guild_bankrolls[bet.guild_id]
            post == guild_bankrolls'[bet.guild_id]
        IN  /\ post.daily_profit = DeltaOf(bet, won)
            /\ Len(post.bets_today) = 1
            /\ post.bets_today[1].stake = bet.stake
            /\ post.bets_today[1].profit = DeltaOf(bet, won)
            /\ post.bets_today[1].event_id = bet.event_id
            /\ post.last_reset = now \div (24 * 3600)
            /\ post.total_profit = pre.total_profit + DeltaOf(bet, won)
            /\ post.current = pre.current + DeltaOf(bet, won)
    ]_vars

\* C7: a bankroll right after the first resolution of a new day: two bets resolved,
\* one record in bets_today, daily_profit differs from total_profit
C7_Witness ==
    /\ last_op.op = "resolved"
    /\ LET b == guild_bankrolls[active_bets[last_op.message_id].guild_id]
       IN  /\ b.won_bets + b.lost_bets = 2
           /\ Len(b.bets_today) = 1
           /\ b.daily_profit # b.total_profit
           /\ b.last_reset = DateOf(now)

\* The guild a ledger step other than a resolution works on
GuildOfStep(op) ==
    IF op.op = "expired" THEN active_bets[op.message_id].guild_id ELSE op.guild_id
\* The ledger steps other than a resolution that C8 names
OtherLedgerOps == {"expired", "set_bankroll_amount", "daily_summary"}

C9_VoidChangesOnlyCounters ==
    [][last_op'.op = "expired" =>
        LET g == active_bets[last_op'.message_id].guild_id
            pre == Before(g)
            post == guild_bankrolls'[g]
        IN  /\ post.void_bets = Get(pre, "void_bets", 0) + 1
            /\ post.pending_bets = Max(0, Get(pre, "pending_bets", 0) - 1)
            /\ DOMAIN post = DOMAIN pre \cup {"void_bets", "pending_bets"}
            /\ \A k \in DOMAIN pre \ {"void_bets", "pending_bets"} : post[k] = pre[k]
            /\ DOMAIN guild_bankrolls' = DOMAIN guild_bankrolls \cup {g}
            /\ \A h \in DOMAIN guild_bankrolls \ {g} : guild_bankrolls'[h] = guild_bankrolls[h]
    ]_vars

\* C9: right after the first bet was voided on a bankroll that counted two pending
\* bets
C9_Witness ==
    /\ last_op.op = "expired"
    /\ LET b == guild_bankrolls[active_bets[last_op.message_id].guild_id]
       IN  /\ b.void_bets = 1
           /\ b.pending_bets = 1
           /\ b.current = b.initial

\* The selection names no team of the game
NoTeamNamed(result, outcome) ==
    /\ ~\E i \in DOMAIN outcome : \E j \in DOMAIN result.home_team :
           outcome[i] = result.home_team[j]
    /\ ~\E i \in DOMAIN outcome : \E j \in DOMAIN result.away_team :
           outcome[i] = result.away_team[j]

\* A completed result that cannot be mapped to the bet: fewer than two scores, an
\* unknown market key, a head-to-head selection that names no team and no draw, a
\* total or spread without a line, a spread that names no team
Unmappable(result, bet) ==
    \/ Len(result.scores) < 2
    \/ bet.market_key \notin {"h2h", "totals", "spreads"}
    \/ /\ bet.market_key = "h2h"
       /\ NoTeamNamed(result, bet.outcome)
       /\ ~\E i \in DOMAIN bet.outcome : bet.outcome[i] \in {"draw", "tie", "deadlock"}
    \/ /\ bet.market_key \in {"totals", "spreads"}
       /\ ~\E i \in DOMAIN bet.outcome : IsNum(bet.outcome[i])
    \/ /\ bet.market_key = "spreads"
       /\ NoTeamNamed(result, bet.outcome)

\* C10: a polled bet whose completed result cannot be mapped to the bet is never
\* resolved as won or lost: it is flagged for review, the step leaves every bankroll
\* as it was, and the bet is dropped from the active set at the end of the pass.
C10_UnmappableGoesToReview ==
    [][/\ last_op'.op \in {"resolved", "needs_review"} =>
            /\ Unmappable(last_op'.result, active_bets[last_op'.message_id]) =>
                   last_op'.op = "needs_review"
            /\ last_op'.op = "needs_review" =>
                   /\ guild_bankrolls' = guild_bankrolls
                   /\ bet_log'[last_op'.message_id] =
                          Append(bet_log[last_op'.message_id],
                                 [kind |-> "review",
                                  guild_id |-> active_bets[last_op'.message_id].guild_id])
                   /\ last_op'.message_id \in Range(completed_bets')
       /\ last_op'.op = "check_finish" =>
            \A m \in Range(completed_bets) : m \notin DOMAIN active_bets'
    ]_vars

\* C10: right after a head-to-head bet on a team that did not play, with both scores
\* known, was flagged: it is on the list of bets to drop and no bankroll exists
C10_Witness ==
    /\ last_op.op = "needs_review"
    /\ Len(last_op.result.scores) = 2
    /\ \A i \in 1..2 : last_op.result.scores[i].numeric
    /\ active_bets[last_op.message_id].market_key = "h2h"
    /\ active_bets[last_op.message_id].outcome = <<"bears">>
    /\ last_op.message_id \in Range(completed_bets)
    /\ "review" \in Kinds(last_op.message_id)
    /\ guild_bankrolls = <<>>

\* C11: wherever the process is stopped and started again, no bet is settled (won,
\* lost or voided) a second time: the files never hold a bankroll that already
\* contains a bet's settlement together with an active-bets store that still
\* contains that bet
C11_NoSecondSettlementAfterRestart ==
    /\ \A m \in MessageIds : Count(m, {"won", "lost", "void"}) <= 1
    /\ last_op.op = "restart" =>
           \A m \in DOMAIN active_bets : Count(m, {"won", "lost", "void"}) = 0

\* The scan jobs that are inside the alert sender for guild g
InProgress(g) == {job \in Jobs : scans[job].pc \in {"send", "save"} /\ scans[job].guild_id = g}

\* C12: at no time are two EV-alert scans for one guild both in progress
C12_OneScanPerGuild ==
    \A g \in Guilds : Cardinality(InProgress(g)) <= 1

\* C13: when processing a bet raises, the step counts the bet as failed and changes
\* nothing else that the processing of the other bets reads or writes: the
\* bankrolls in memory and on file, the active bets, the completed list and the
\* log of settlements stay as they are, and the loop goes on to the next bet; the
\* pass then removes only bets it settled or flagged, so the failing bet stays
C13_FailureIsIsolated ==
    [][/\ last_op'.op = "failed" =>
            /\ results_summary' = [results_summary EXCEPT !.failed = @ + 1]
            /\ UNCHANGED <<guild_bankrolls, file_bankrolls, active_bets, file_active_bets,
                           completed_bets, current_time, bet_log>>
            /\ last_op'.message_id \notin Range(completed_bets')
            /\ pc' = "checking"
            /\ sorted_bets' = Tail(sorted_bets)
       /\ last_op'.op = "check_finish" =>
            \A m \in DOMAIN active_bets : bet_log[m] = <<>> => m \in DOMAIN active_bets'
      ]_vars

\* C13 witness: the loop of a pass has ended after the first bet raised and the
\* second was resolved as won; the first bet is not among the completed ones and
\* the bankroll holds the second bet's winnings only
C13_Witness ==
    /\ pc = "checking" /\ sorted_bets = <<>>
    /\ results_summary.failed = 1 /\ results_summary.resolved = 1
    /\ completed_bets = <<2>> /\ 1 \in DOMAIN active_bets
    /\ bet_log = <<<<>>, <<[kind |-> "won", guild_id |-> 1]>>>>
    /\ guild_bankrolls[1].current = Dollars(DefaultBankrollDollars) + 8000
    /\ guild_bankrolls[1].won_bets = 1 /\ guild_bankrolls[1].lost_bets = 0

\* The single event of a finished call of a detector
TheEvent == calc.events[1]
\* The allowed bookmakers in an event's list
ListedAllowed(event) ==
    {event.bookmakers[i].title : i \in DOMAIN event.bookmakers} \cap AllowedBooks
\* The best valid price any allowed bookmaker offers under the normalized key k
BestOf(event, k) ==
    Greatest({q.outcome.price : q \in {r \in QuotesOf(event, "h2h", AllowedBooks) :
                  normalize_outcome_name(r.outcome.name, "h2h", r.outcome) = k}})
\* The normalized keys of the valid quotes of the allowed bookmakers
KeysOf(event) ==
    {normalize_outcome_name(q.outcome.name, "h2h", q.outcome) :
        q \in QuotesOf(event, "h2h", AllowedBooks)}
\* 1/p1 + 1/p2 over the best prices of an event with two keys
InvSumOfBest(event) ==
    LET k1 == CHOOSE k \in KeysOf(event) : TRUE
        k2 == CHOOSE k \in KeysOf(event) : k # k1
    IN  Frac(100 * (BestOf(event, k1) + BestOf(event, k2)),
             BestOf(event, k1) * BestOf(event, k2))

\* C14: for an event in the window with at least two allowed bookmakers listed,
\* find_arbitrage returns an opportunity exactly when the event has two normalized
\* keys, the inverse sum of their best prices is between 0 and 1 and the margin
\* (1 - inv_sum) * 100 is at least min_margin; the margin reported is that margin
C14_ArbitrageIffMargin ==
    (calc.op = "find_arbitrage" /\ calc.done /\ Cardinality(ListedAllowed(TheEvent)) >= 2) =>
        /\ Len(calc.result) <= 1
        /\ Cardinality(KeysOf(TheEvent)) # 2 => calc.result = <<>>
        /\ Cardinality(KeysOf(TheEvent)) = 2 =>
              LET inv_sum == InvSumOfBest(TheEvent)
                  margin == Frac(100 * (inv_sum[2] - inv_sum[1]), inv_sum[2])
              IN  /\ calc.result # <<>> <=>
                        /\ 0 < inv_sum[1] /\ inv_sum[1] < inv_sum[2]
                        /\ margin[1] * 10 >= calc.min_margin * margin[2]
                  /\ calc.result # <<>> => FracEq(calc.result[1].margin, margin)

\* C14 witness: best prices 2.10 (at one bookmaker) and 2.05 (at the other) give a
\* margin of about 3.6%, returned for a minimum of 2.0%
C14_Witness ==
    /\ calc.op = "find_arbitrage" /\ calc.done
    /\ calc.min_margin = 20
    /\ Len(calc.result) = 1
    /\ calc.result[1].best_odds[<<"Lions">>] = [price |-> 210, bookmaker |-> "A"]
    /\ calc.result[1].best_odds[<<"Tigers">>] = [price |-> 205, bookmaker |-> "B"]
    /\ FracLess(<<35, 10>>, calc.result[1].margin)
    /\ FracLess(calc.result[1].margin, <<37, 10>>)

\* The allowed bookmakers with a valid price for some outcome of the event
PricingBooks(event) == {q.title : q \in QuotesOf(event, "h2h", AllowedBooks)}

\* C15: find_arbitrage returns an opportunity only when at least two distinct
\* allowed bookmakers each have a valid price for one of the two outcomes
C15_TwoBookmakersPriceTheMarket ==
    (calc.op = "find_arbitrage" /\ calc.done /\ calc.result # <<>>) =>
        Cardinality(PricingBooks(TheEvent)) >= 2

\* The ids of the events a finished call returned opportunities for
ReturnedIds == {calc.result[i].event.id : i \in DOMAIN calc.result}
\* The seconds from the call to the start of an event with an ISO timestamp
SecondsUntil(event) == event.commence_time.time - now
\* The event carries a timestamp that parses
Parses(event) == "commence_time" \in DOMAIN event /\ event.commence_time.iso

TheOffers ==
    OffersIn(InLoopOrder(QuotesOf(TheEvent, "h2h", calc.allowed_books)), "h2h", <<"Lions">>)
\* The offers with the price of offer i raised by d
Raised(offers, i, d) == [offers EXCEPT ![i].price = @ + d]
\* By how much a price is raised (hundredths)
Raises == {10, 100}
\* The positions of the offers with the highest price
BestPositions(offers) ==
    {i \in DOMAIN offers : \A j \in DOMAIN offers : offers[i].price >= offers[j].price}

C18_TwoBookmakersQuoteTheOutcome ==
    (calc.op = "find_ev_opportunities" /\ calc.done) =>
        \A i \in DOMAIN calc.result :
            Cardinality({q.title : q \in {r \in QuotesOf(TheEvent, "h2h", calc.allowed_books) :
                            EvName("h2h", r.outcome) = calc.result[i].outcome}}) >= 2

\* The prices of the offers, lowest first
RECURSIVE PricesAscending(_)
PricesAscending(prices) ==
    IF prices = {} THEN <<>>
    ELSE <<Least(prices)>> \o PricesAscending(prices \ {Least(prices)})

\* C19: with two offers the fair price is the reciprocal of the mean of both
\* implied probabilities (the harmonic mean of the two prices); with n >= 3
\* offers max(1, n // 10) implied probabilities are dropped at each end of the
\* sorted list, at least one is left, those left are in ascending order and no
\* dropped one lies strictly between them; with three offers the fair price is
\* the middle price
C19_FairPriceOfTrimmedMean ==
    (calc.op = "find_ev_opportunities" /\ calc.done /\ Len(TheOffers) >= 2) =>
        LET n == Len(TheOffers)
            kept == TrimmedProbs(TheOffers)
            k == IF n \div 10 > 1 THEN n \div 10 ELSE 1
        IN  /\ FracEq(FairOdds(TheOffers),
                      <<100 * SumProbs(kept)[2] * Len(kept), SumProbs(kept)[1]>>)
            /\ n = 2 => FracEq(FairOdds(TheOffers),
                                <<2 * TheOffers[1].price * TheOffers[2].price,
                                  TheOffers[1].price + TheOffers[2].price>>)
            /\ n >= 3 =>
                  /\ Len(kept) = n - 2 * k
                  /\ Len(kept) >= 1
                  /\ \A i \in 1..(Len(kept) - 1) : FracLeq(kept[i], kept[i + 1])
                  /\ Cardinality({i \in 1..n :
                         FracLeq(Implied(TheOffers[i].price), kept[1])}) >= k + 1
                  /\ Cardinality({i \in 1..n :
                         FracLeq(kept[Len(kept)], Implied(TheOffers[i].price))}) >= k + 1
            /\ (n = 3 /\ Cardinality({TheOffers[i].price : i \in 1..3}) = 3) =>
                  FracEq(FairOdds(TheOffers),
                         <<PricesAscending({TheOffers[i].price : i \in 1..3})[2], 1>>)

\* C19 witness: offers of 1.90, 1.95 and 2.05 give a fair price of 1.95
C19_Witness ==
    /\ calc.op = "find_ev_opportunities" /\ calc.done
    /\ TheOffers = <<[price |-> 190, bookmaker |-> "A"], [price |-> 195, bookmaker |-> "B"],
                     [price |-> 205, bookmaker |-> "X"]>>
    /\ FairOdds(TheOffers) = <<195, 1>>
    /\ calc.min_ev = 50 /\ Len(calc.result) = 1
    /\ calc.result[1].fair_odds = 195 /\ calc.result[1].ev = 513

\* C19 witness for a long list: of twenty offers two are dropped at each end
C19_WitnessTwenty ==
    /\ calc.op = "find_ev_opportunities" /\ calc.done
    /\ Len(TheOffers) = 20
    /\ Len(TrimmedProbs(TheOffers)) = 16

\* The total, the prices and the exact stakes of a finished stake calculation
\* with inv_sum < 1
StakesSized ==
    /\ calc.op \in {"create_enhanced_arbitrage_embed", "ArbCalculatorModal.on_submit"}
    /\ calc.done
    /\ calc.op = "ArbCalculatorModal.on_submit" =>
            calc.result.message = "Arbitrage Calculator Results"
    /\ calc.op = "create_enhanced_arbitrage_embed" =>
            FracLess(InvSumOf(calc.best_odds), <<1, 1>>)
TheTotal ==
    IF calc.op = "create_enhanced_arbitrage_embed" THEN TotalSuggestedStake
    ELSE calc.total_amount.value
ThePrices ==
    IF calc.op = "create_enhanced_arbitrage_embed" THEN calc.best_odds
    ELSE [i \in DOMAIN calc.odds_inputs |-> calc.odds_inputs[i].value]
TheStakes ==
    [i \in DOMAIN ThePrices |-> StakeOf(TheTotal, ThePrices[i], InvSumOf(ThePrices))]
TheReturn == Frac(TheTotal * InvSumOf(ThePrices)[2], InvSumOf(ThePrices)[1])

\* C20: for a total T over legs with prices p_i and inv_sum < 1, the stakes
\* T / (p_i * inv_sum) sum to T, every stake_i * p_i equals T / inv_sum, and the
\* profit T / inv_sum - T is positive; the embed's stakes, total investment and
\* profit are these values, and the calculator shows each stake rounded to the
\* nearest hundredth
C20_StakesEqualiseTheReturn ==
    StakesSized =>
        /\ SumFracs(TheStakes) = <<TheTotal, 1>>
        /\ \A i \in DOMAIN ThePrices :
              FracMul(TheStakes[i], <<ThePrices[i], 100>>) = TheReturn
        /\ FracLess(<<0, 1>>, FracSub(TheReturn, <<TheTotal, 1>>))
        /\ calc.op = "create_enhanced_arbitrage_embed" =>
              /\ calc.result.stakes = TheStakes
              /\ calc.result.total_investment = <<TheTotal, 1>>
              /\ \A i \in DOMAIN ThePrices : calc.result.potential_returns[i] = TheReturn
              /\ calc.result.profit_amount = FracSub(TheReturn, <<TheTotal, 1>>)
        /\ calc.op = "ArbCalculatorModal.on_submit" =>
              \A i \in DOMAIN ThePrices :
                  /\ FracLeq(<<2 * calc.result.stakes[i] - 1, 200>>, TheStakes[i])
                  /\ FracLeq(TheStakes[i], <<2 * calc.result.stakes[i] + 1, 200>>)

\* C20 witness: 100 units over 2.10 and 2.05 are split 10000/205 and 10000/210,
\* either leg returns 8610/83 (103.73) and the profit is 310/83 (3.73)
C20_Witness ==
    /\ calc.op = "create_enhanced_arbitrage_embed" /\ calc.done
    /\ calc.best_odds = <<210, 205>>
    /\ calc.result.stakes = <<Frac(4100, 83), Frac(4200, 83)>>
    /\ calc.result.potential_returns = <<Frac(8610, 83), Frac(8610, 83)>>
    /\ calc.result.profit_amount = Frac(310, 83)
    /\ calc.result.total_investment = <<100, 1>>

\* The step is the start of a get_odds call
OddsCallStep == fetch.pc = "idle" /\ last_op'.op \in {"get_odds", "get_odds_request"}
                    /\ fetch'.calls = fetch.calls + 1
\* The step is the return of a get_odds call that asked the upstream
OddsReturnStep == fetch.pc \in {"odds_first", "odds_retry"} /\ last_op'.op = "get_odds"
\* The entries of the keys other than key are what they were
OtherEntriesKept(key) ==
    \A k \in OddsKeys \ {key} :
        /\ k \in DOMAIN odds_cache' <=> k \in DOMAIN odds_cache
        /\ k \in DOMAIN odds_cache => odds_cache'[k] = odds_cache[k]

\* C21: a get_odds call for a key whose entry is younger than CACHE_SECONDS returns
\* the entry's events and sends no request; a call for a key without an entry, or
\* with an entry whose age has reached CACHE_SECONDS, sends a request, and when the
\* call ends with a 200 array the entry becomes exactly that array; no step of a
\* call changes the entry of another key
C21_ReadThroughCache ==
    [][/\ OddsCallStep =>
             LET key == last_op'.key
             IN  /\ IF key \in DOMAIN odds_cache
                        /\ now - odds_cache[key].timestamp < CACHE_SECONDS
                    THEN /\ last_op'.op = "get_odds" /\ last_op'.hit
                         /\ last_op'.result = odds_cache[key].data
                         /\ requests' = requests
                         /\ fetch'.pc = "idle"
                    ELSE /\ last_op'.op = "get_odds_request"
                         /\ requests'.count[key] = requests.count[key] + 1
                         /\ fetch'.pc = "odds_first"
                 /\ odds_cache' = odds_cache
       /\ OddsReturnStep =>
             /\ requests'.answer = "array" =>
                   /\ last_op'.key \in DOMAIN odds_cache'
                   /\ odds_cache'[last_op'.key].data = last_op'.result
                   /\ odds_cache'[last_op'.key].timestamp = fetch.now
             /\ OtherEntriesKept(last_op'.key)
       /\ last_op'.op \in {"get_odds_retry", "get_sports", "get_sports_request", "tick"} =>
             odds_cache' = odds_cache]_vars

\* C21 witness: fourteen seconds after the call that fetched two events for a key,
\* a call for the key is answered from the cache, the upstream having seen one request
C21_Witness ==
    /\ last_op.op = "get_odds" /\ last_op.hit
    /\ last_op.result = <<[id |-> "E1"], [id |-> "E2"]>>
    /\ now - odds_cache[last_op.key].timestamp = 14
    /\ requests.count[last_op.key] = 1

\* The step is the start of a call for the URL the upstream last answered, and
\* the call that got this answer started less than CACHE_SECONDS ago
RepeatedCallStep ==
    /\ fetch.pc = "idle" /\ fetch'.calls = fetch.calls + 1
    /\ last_op'.op \in {"get_odds", "get_odds_request", "get_sports", "get_sports_request"}
    /\ last_op'.key = requests.url
    /\ now - requests.time < CACHE_SECONDS

\* C22: after a 200 answer that is not an array or not JSON, or a 422, a repeated
\* call within CACHE_SECONDS sends no request
C22_MalformedAnswerIsCached ==
    [][(RepeatedCallStep /\ requests.answer \in {"object", "invalid", "422"}) =>
            requests'.count = requests.count]_vars

\* The requests all URLs received
TotalRequests == requests.count[SportsUrl]
                    + requests.count[<<"soccer_epl", "h2h">>]
                    + requests.count[<<"soccer_epl", "totals">>]

\* C23: a get_odds call sends at most two requests, the second only after a 429
\* to the first, and returns the empty list unless the answer it ends with is a 200
\* array; a get_sports call sends at most one request; no call raises, and after
\* a 401, a timeout, a client error, a 500 or a body that is no array the call
\* has sent one request and returns the empty list
C23_AtMostOneRetry ==
    /\ TotalRequests <= 2 * fetch.calls
    /\ requests.count[SportsUrl] <= fetch.calls
    /\ fetch.pc = "odds_retry" => fetch.first = "429"
    /\ last_op.op \in {"get_odds", "get_sports"} =>
          /\ ~last_op.raised
          /\ last_op.sent <= (IF last_op.op = "get_odds" THEN 2 ELSE 1)
          /\ last_op.sent = 2 => last_op.first = "429"
          /\ (~last_op.hit /\ requests.answer # "array") => last_op.result = <<>>
          /\ last_op.first \in {"401", "422", "500", "TimeoutError", "ClientError", "object",
                                  "invalid"} =>
                (last_op.sent = 1 /\ last_op.result = <<>>)

\* C23 witness: a get_odds call was answered 429, then its second request timed
\* out, and it returned the empty list
C23_Witness ==
    /\ last_op.op = "get_odds" /\ last_op.sent = 2 /\ last_op.first = "429"
    /\ requests.answer = "TimeoutError" /\ requests.count[last_op.key] = 2
    /\ last_op.result = <<>> /\ ~last_op.raised
    /\ last_op.key \notin DOMAIN odds_cache

\* C24: when a resolver pass that completed some bet has saved the active bets,
\* loading the file gives exactly the active set of that moment
C24_SaveLoadRoundTrip ==
    [][(last_op'.op = "check_finish" /\ last_op'.removed # {}) =>
            load_active_bets(file_active_bets', now') = active_bets']_vars

\* Whether the bet of a finished head-to-head call has won by the final scores
H2hWon ==
    IF calc.selection = "home" THEN calc.home_score > calc.away_score
    ELSE IF calc.selection = "away" THEN calc.away_score > calc.home_score
    ELSE calc.home_score = calc.away_score

\* C25: for a completed head-to-head result a bet on the home team is classified
\* won iff home_score > away_score, a bet on the away team iff away_score >
\* home_score, a draw bet iff the scores are equal, whatever the two teams are called
C25_H2hFollowsTheScores ==
    (calc.op \in {"determine_h2h_outcome", "determine_bet_outcome_enhanced"} /\ calc.done) =>
        calc.result = PyBool(H2hWon)

\* The key arbitrage detection files a quote under
NormalizedKey(q) == normalize_outcome_name(q.outcome.name, "h2h", q.outcome)
\* The (price, bookmaker) pairs, in loop order, of the quotes with a normalized key
RECURSIVE OffersOfKey(_, _)
OffersOfKey(ordered, key) ==
    IF ordered = <<>> THEN <<>>
    ELSE (IF NormalizedKey(Head(ordered)) = key
          THEN <<[price |-> Head(ordered).outcome.price, bookmaker |-> Head(ordered).title]>>
          ELSE <<>>) \o OffersOfKey(Tail(ordered), key)
TheQuotes == QuotesOf(TheEvent, "h2h", calc.allowed_books)

\* C26: the valid quotes of an event that have the same normalized key are one group
\* of EV detection: when there are at least two of them and their EV reaches the
\* minimum, an opportunity is returned for the key that counts all of them
C26_EvGroupsByNormalizedKey ==
    (calc.op = "find_ev_opportunities" /\ calc.done) =>
        \A q \in TheQuotes :
            LET offers == OffersOfKey(InLoopOrder(TheQuotes), NormalizedKey(q))
            IN  (Len(offers) >= 2 /\ FracLeq(<<calc.min_ev, 10>>, EvOfOffers(offers))) =>
                    \E i \in DOMAIN calc.result :
                        /\ normalize_outcome_name(calc.result[i].outcome[1], "h2h",
                                                  [name |-> calc.result[i].outcome[1]])
                               = NormalizedKey(q)
                        /\ calc.result[i].num_bookmakers = Len(offers)

DollarsSized == calc.op = "calculate_stake_dollars" /\ calc.done /\ calc.current_bankroll > 0

C29_AlertPostedAtMostOnce ==
    \A i, j \in DOMAIN sent_alerts :
        (/\ sent_alerts[i].guild_id = sent_alerts[j].guild_id
         /\ sent_alerts[i].event_id = sent_alerts[j].event_id
         /\ sent_alerts[i].outcome = sent_alerts[j].outcome) => i = j

\* The number of the guild's bets in the active set
ActiveBetsOf(g) == Cardinality({m \in DOMAIN active_bets : active_bets[m].guild_id = g})

\* C30: between the resolver's passes every guild with a bankroll has a pending_bets
\* that is not negative and equals the number of its bets in the active set
C30_PendingCountsActiveBets ==
    pc = "idle" =>
        \A g \in DOMAIN guild_bankrolls :
            /\ Get(guild_bankrolls[g], "pending_bets", 0) >= 0
            /\ Get(guild_bankrolls[g], "pending_bets", 0) = ActiveBetsOf(g)

====
